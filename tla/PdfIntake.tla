------------------------------- MODULE PdfIntake -------------------------------
(***************************************************************************)
(* PDF intake (src-tauri/src/features/pdf): a command clears the corpus    *)
(* and the in-memory texts, takes a text from each PDF, and loads them as  *)
(* the new corpus; for project sources it also persists each text and at   *)
(* the end records the results in the inventory.  Intakes run one per      *)
(* cancellation slot, but the one replaced runs on until it polls its      *)
(* token, so that two overlap.  OCR quality, pages and the caches of page  *)
(* ranges and concordance queries are left out, and the memory for texts   *)
(* is not bounded here (ExtractionCache).                                  *)
(***************************************************************************)

CONSTANTS
  Pdfs,           \* the PDFs of the project
  Jobs, NoJob,    \* the intakes
  NoPdf,
  Offered         \* the profiles an intake may be asked for

Sources == {"embedded", "ocr"}
Choices == Sources \cup {"as_stored"}

ASSUME OfferedAssumption == Offered \subseteq Choices
ASSUME NoneAssumption == NoJob \notin Jobs /\ NoPdf \notin Pdfs

NoText == "none"
Torn == "torn"      \* a file emptied for writing and not filled, or filled by two at once
OnDisk == Sources \cup {NoText, Torn}

VARIABLES
  active, cancelled,   \* PdfIntakeState.cancel and the token of each intake
  intake,              \* intake[j]: what j does and how far it is
  handling,            \* inventory: where the text of each PDF is to come from
  status,              \* inventory: the status of each PDF
  persisted,           \* project text cache: the source of the text in the file
  cache,               \* extraction cache: the pairs of PDF and text source held
  corpus               \* the loaded records: PDF and text source

INSTANCE ActiveCancellation

vars == <<active, cancelled, intake, handling, status, persisted, cache, corpus>>
inventory == <<handling, status>>

Saving == {"profiling", "marking", "recording"}
Stages == {"idle", "begun", "reset", "profiled", "planned", "extracting", "storing", "stored",
           "writing", "failing", "marked", "recorded", "ending"} \cup Saving
Statuses == {"planned", "extracted", "ocr_generated", "failed"}

(* What a command has in memory of the inventory it loaded and changed.    *)
Copy == [handling : [Pdfs -> Sources], status : [Pdfs -> Statuses]]

Intake == [stage : Stages, project : BOOLEAN, files : SUBSET Pdfs, override : Choices,
           plan : [Pdfs -> Sources \cup {NoText}], current : Pdfs \cup {NoPdf}, done : SUBSET Pdfs,
           copy : Copy]

NoPlan == [f \in Pdfs |-> NoText]
NoCopy == [handling |-> [f \in Pdfs |-> "embedded"], status |-> [f \in Pdfs |-> "planned"]]
Idle == [stage |-> "idle", project |-> FALSE, files |-> {}, override |-> "as_stored",
         plan |-> NoPlan, current |-> NoPdf, done |-> {}, copy |-> NoCopy]

TypeOK ==
  /\ CancellationTypeOK
  /\ intake \in [Jobs -> Intake]
  /\ handling \in [Pdfs -> Sources]
  /\ status \in [Pdfs -> Statuses]
  /\ persisted \in [Pdfs -> OnDisk]
  /\ cache \subseteq Pdfs \X Sources
  /\ corpus \subseteq Pdfs \X Sources

Init ==
  /\ CancellationInit
  /\ intake = [j \in Jobs |-> Idle]
  /\ handling \in [Pdfs -> Sources]
  /\ status = [f \in Pdfs |-> "planned"]
  /\ persisted = NoPlan
  /\ cache = {}
  /\ corpus = {}

Goto(j, stage) == intake' = [intake EXCEPT ![j].stage = stage]

-------------------------------------------------------------------------------
(* An intake, step by step.                                                *)

(* A project intake may choose one profile for all its files; an intake of *)
(* loose files has one from the request.                                   *)
StartIntake(j, project, files, override) ==
  /\ intake[j].stage = "idle"
  /\ files # {}
  /\ project \/ override \in Sources
  /\ Begin(j)
  /\ intake' = [intake EXCEPT ![j] = [Idle EXCEPT !.stage = "begun", !.project = project,
                                                  !.files = files, !.override = override]]
  /\ UNCHANGED <<inventory, persisted, cache, corpus>>

Reset(j) ==
  /\ intake[j].stage = "begun"
  /\ cache' = {}
  /\ corpus' = {}
  /\ Goto(j, "reset")
  /\ UNCHANGED <<active, cancelled, inventory, persisted>>

(* The inventory is loaded whole, changed in memory and written whole,     *)
(* without a lock: what others wrote in between is written over.  An error *)
(* in loading or saving returns at once, but for a file that is only to be *)
(* marked as failed.                                                       *)
Change(j, stage, copy) == intake' = [intake EXCEPT ![j].stage = stage, ![j].copy = copy]

SaveInventory(j) ==
  /\ intake[j].stage \in Saving
  /\ \/ /\ handling' = intake[j].copy.handling /\ status' = intake[j].copy.status
        /\ Change(j, CASE intake[j].stage = "profiling" -> "profiled"
                       [] intake[j].stage = "marking" -> "marked"
                       [] intake[j].stage = "recording" -> "recorded", NoCopy)
     \/ /\ Change(j, IF intake[j].stage = "marking" THEN "marked" ELSE "ending", NoCopy)
        /\ UNCHANGED inventory
  /\ UNCHANGED <<active, cancelled, persisted, cache, corpus>>

(* Choosing a profile plans the sources anew in the inventory. *)
UpdateProfiles(j) ==
  /\ intake[j].stage = "reset"
  /\ IF intake[j].project /\ intake[j].override \in Sources
     THEN Change(j, "profiling",
            [handling |-> [f \in Pdfs |-> IF f \in intake[j].files THEN intake[j].override
                                          ELSE handling[f]],
             status |-> [f \in Pdfs |-> IF f \in intake[j].files THEN "planned" ELSE status[f]]])
     ELSE Goto(j, "profiled")
  /\ UNCHANGED <<active, cancelled, inventory, persisted, cache, corpus>>

Plan(j) ==
  /\ intake[j].stage = "profiled"
  /\ intake' = [intake EXCEPT ![j].stage = "planned",
       ![j].plan = [f \in Pdfs |-> IF f \notin intake[j].files THEN NoText
                                   ELSE IF intake[j].override = "as_stored" THEN handling[f]
                                   ELSE intake[j].override]]
  /\ UNCHANGED <<active, cancelled, inventory, persisted, cache, corpus>>

(* The inventory or a file cannot be read: the error returns at once.  An   *)
(* intake of loose files that meets something else than a PDF clears too.  *)
Refuse(j) ==
  /\ intake[j].stage \in {"reset", "profiled"}
  /\ \/ UNCHANGED cache
     \/ ~ intake[j].project /\ cache' = {}
  /\ Goto(j, "ending")
  /\ UNCHANGED <<active, cancelled, inventory, persisted, corpus>>

(* The token is polled before each file. *)
StartFile(j, f) ==
  /\ intake[j].stage = "planned"
  /\ f \in intake[j].files \ intake[j].done
  /\ intake' = [intake EXCEPT ![j].stage = IF cancelled[j] THEN "failing" ELSE "extracting",
                              ![j].current = f]
  /\ UNCHANGED <<active, cancelled, inventory, persisted, cache, corpus>>

(* The token is polled between pages, for the last time before the text is *)
(* stored, or the extraction fails.                                        *)
Extract(j) ==
  /\ intake[j].stage = "extracting"
  /\ \/ Goto(j, IF cancelled[j] THEN "failing" ELSE "storing")
     \/ Goto(j, "failing")
  /\ UNCHANGED <<active, cancelled, inventory, persisted, cache, corpus>>

Text(j) == <<intake[j].current, intake[j].plan[intake[j].current]>>

(* A file that counts as done without its text on disk. *)
StoreWithoutPersisting(j) ==
  /\ intake[j].stage = "storing"
  /\ cache' = cache \cup {Text(j)}
  /\ intake' = [intake EXCEPT ![j].stage = "planned", ![j].done = @ \cup {intake[j].current}]
  /\ UNCHANGED <<active, cancelled, inventory, persisted, corpus>>

(* Embedded text is stored before the token is polled once more. *)
Store(j) ==
  /\ intake[j].stage = "storing"
  /\ cache' = cache \cup {Text(j)}
  /\ IF Text(j)[2] = "embedded" /\ cancelled[j] THEN Goto(j, "failing")
     ELSE IF intake[j].project THEN Goto(j, "stored")
     ELSE intake' = [intake EXCEPT ![j].stage = "planned", ![j].done = @ \cup {intake[j].current}]
  /\ UNCHANGED <<active, cancelled, inventory, persisted, corpus>>

(* Writing a text empties the file and then fills it.  If either fails the *)
(* error returns at once: the memory is not cleared, and what was          *)
(* persisted before is never recorded.                                     *)
TruncateText(j) ==
  /\ intake[j].stage = "stored"
  /\ \/ persisted' = [persisted EXCEPT ![intake[j].current] = Torn] /\ Goto(j, "writing")
     \/ Goto(j, "ending") /\ UNCHANGED persisted
  /\ UNCHANGED <<active, cancelled, inventory, cache, corpus>>

(* Two intakes filling one file may leave a mixture of both. *)
WriteText(j) ==
  /\ intake[j].stage = "writing"
  /\ \/ /\ \E text \in {Text(j)[2]} \cup (IF persisted[intake[j].current] = Torn THEN {} ELSE {Torn}) :
             persisted' = [persisted EXCEPT ![intake[j].current] = text]
        /\ intake' = [intake EXCEPT ![j].stage = "planned",
                                    ![j].done = @ \cup {intake[j].current}]
     \/ Goto(j, "ending") /\ UNCHANGED persisted
  /\ UNCHANGED <<active, cancelled, inventory, cache, corpus>>

(* Only the file at hand is marked, and an error in doing so is ignored. *)
MarkFailed(j) ==
  /\ intake[j].stage = "failing"
  /\ \/ /\ intake[j].project
        /\ Change(j, "marking", [handling |-> handling,
                                 status |-> [status EXCEPT ![intake[j].current] = "failed"]])
     \/ Goto(j, "marked")
  /\ UNCHANGED <<active, cancelled, inventory, persisted, cache, corpus>>

(* A failed file that is tried again, as often as it fails. *)
RetryAfterFailure(j) ==
  /\ intake[j].stage = "marked"
  /\ cache' = {}
  /\ Goto(j, "planned")
  /\ UNCHANGED <<active, cancelled, inventory, persisted, corpus>>

(* The whole cache goes, whoever filled it. *)
ClearAfterFailure(j) ==
  /\ intake[j].stage = "marked"
  /\ cache' = {}
  /\ Goto(j, "ending")
  /\ UNCHANGED <<active, cancelled, inventory, persisted, corpus>>

(* All files done: their results go to the inventory together.  Whether a  *)
(* text came from OCR is read off the profile the inventory has by now.    *)
RecordResults(j) ==
  /\ intake[j].stage = "planned" /\ intake[j].done = intake[j].files
  /\ \/ /\ intake[j].project
        /\ Change(j, "recording",
             [handling |-> handling,
              status |-> [f \in Pdfs |->
                IF f \notin intake[j].files THEN status[f]
                ELSE IF handling[f] = "ocr" THEN "ocr_generated" ELSE "extracted"]])
     \/ intake[j].project /\ Goto(j, "ending")
     \/ ~ intake[j].project /\ Goto(j, "recorded")
  /\ UNCHANGED <<active, cancelled, inventory, persisted, cache, corpus>>

LoadCorpus(j) ==
  /\ intake[j].stage = "recorded"
  /\ corpus' = {<<f, intake[j].plan[f]>> : f \in intake[j].files}
  /\ Goto(j, "ending")
  /\ UNCHANGED <<active, cancelled, inventory, persisted, cache>>

EndIntake(j) ==
  /\ intake[j].stage = "ending"
  /\ Finish(j)
  /\ intake' = [intake EXCEPT ![j] = Idle]
  /\ UNCHANGED <<inventory, persisted, cache, corpus>>

(* cancel_pdf_intake_materialization_command *)
RequestCancel ==
  /\ Cancel
  /\ UNCHANGED <<intake, inventory, persisted, cache, corpus>>

(* The program dies: the inventory and the persisted texts stay. *)
Crash ==
  /\ active' = NoJob
  /\ cancelled' = [j \in Jobs |-> FALSE]
  /\ intake' = [j \in Jobs |-> Idle]
  /\ cache' = {} /\ corpus' = {}
  /\ UNCHANGED <<inventory, persisted>>

Step(j) ==
  \/ Reset(j) \/ UpdateProfiles(j) \/ SaveInventory(j) \/ Plan(j) \/ Refuse(j)
  \/ \E f \in Pdfs : StartFile(j, f)
  \/ Extract(j) \/ Store(j) \/ TruncateText(j) \/ WriteText(j)
  \/ MarkFailed(j) \/ ClearAfterFailure(j)
  \/ RecordResults(j) \/ LoadCorpus(j) \/ EndIntake(j)

Next ==
  \/ \E j \in Jobs : Step(j)
  \/ \E j \in Jobs, project \in BOOLEAN, files \in SUBSET Pdfs, override \in Offered :
       StartIntake(j, project, files, override)
  \/ RequestCancel
  \/ Crash

(* The thread of a running command keeps running. *)
Fairness == \A j \in Jobs : WF_vars(Step(j))

Spec == Init /\ [][Next]_vars /\ Fairness

-------------------------------------------------------------------------------
(* Properties.                                                             *)


(* A source is listed as extracted only after a text of it was persisted,  *)
(* however intakes overlap, fail and are cut off by the end of the program *)
(* (prepare_project_pdf_sources_command persists before it records); only  *)
(* another write of the same file can have damaged it since.               *)
RecordedTextIsPersisted ==
  \A f \in Pdfs : status[f] \in {"extracted", "ocr_generated"} => persisted[f] # NoText

(* Every intake comes to its end and hands the slot back, whether it is    *)
(* replaced, cancelled, or fails (ActiveCancellation::run).                *)
IntakesEnd == \A j \in Jobs : intake[j].stage # "idle" ~> intake[j].stage = "idle"

===============================================================================
