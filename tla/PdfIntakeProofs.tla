---------------------------- MODULE PdfIntakeProofs ----------------------------
(***************************************************************************)
(* For any PDFs and any number of overlapping, replaced, failing and cut   *)
(* off intakes: the variables keep their types, and the inventory lists no *)
(* source as extracted before a text of it was persisted.                  *)
(***************************************************************************)
EXTENDS PdfIntake, TLAPS

(* Once an intake has planned it knows a source for each of its files, and *)
(* the file it works on is one of them.                                    *)
Sane(t) ==
  /\ t.stage \in Stages \ {"idle", "begun", "reset", "profiling", "profiled", "ending"}
       => \A f \in t.files : t.plan[f] \in Sources
  /\ t.stage \in {"extracting", "storing", "stored", "writing", "failing"} => t.current \in t.files

(* What an intake counts as done is on disk, and so is what its copy of    *)
(* the inventory lists as extracted.                                       *)
Listed(copy) == {f \in Pdfs : copy.status[f] \in {"extracted", "ocr_generated"}}
Persisted(t) ==
  /\ t.project => \A f \in t.done : persisted[f] # NoText
  /\ \A f \in Listed(t.copy) : persisted[f] # NoText

IInv ==
  /\ TypeOK
  /\ \A j \in Jobs : Sane(intake[j]) /\ Persisted(intake[j])
  /\ RecordedTextIsPersisted

LEMMA IdleIsSane ==
  /\ Idle \in Intake /\ Sane(Idle) /\ Idle.project = FALSE /\ Idle.done = {}
  /\ NoCopy \in Copy /\ Idle.copy = NoCopy /\ Listed(NoCopy) = {}
<1>1. NoCopy \in Copy /\ \A f \in Pdfs : NoCopy.status[f] = "planned"
  BY DEF NoCopy, Copy, Sources, Statuses
<1> QED
  BY <1>1 DEF Idle, Intake, Sane, Stages, Choices, NoPlan, Listed

(* A step that gives intake j another state, of the same files done.       *)
LEMMA IntakeStep ==
  ASSUME IInv, NEW j \in Jobs, NEW t \in Intake, intake' = [intake EXCEPT ![j] = t], Sane(t),
         (t.project = intake[j].project /\ t.done = intake[j].done) \/ t.project = FALSE \/ t.done = {},
         \A f \in Listed(t.copy) : f \in Listed(intake[j].copy) \/ persisted[f] # NoText,
         CancellationTypeOK', UNCHANGED <<inventory, persisted>>,
         cache' \subseteq Pdfs \X Sources, corpus' \subseteq Pdfs \X Sources
  PROVE  IInv'
<1>1. /\ intake \in [Jobs -> Intake] /\ handling \in [Pdfs -> Sources]
      /\ status \in [Pdfs -> Statuses] /\ persisted \in [Pdfs -> OnDisk]
  BY DEF IInv, TypeOK
<1>2. TypeOK'
  BY <1>1 DEF TypeOK, inventory
<1>3. \A k \in Jobs : Sane(intake'[k])
  BY <1>1 DEF IInv
<1>4. \A k \in Jobs : Persisted(intake[k])
  BY DEF IInv
<1>5. \A k \in Jobs : Persisted(intake[k])'
  <2> TAKE k \in Jobs
  <2>1. CASE k = j
    BY <1>1, <1>4, <2>1 DEF Persisted
  <2>2. CASE k # j
    BY <1>1, <1>4, <2>2 DEF Persisted
  <2> QED
    BY <2>1, <2>2
<1>6. RecordedTextIsPersisted'
  BY DEF IInv, RecordedTextIsPersisted, inventory
<1> QED
  BY <1>2, <1>3, <1>5, <1>6 DEF IInv, Sane

(* The same for a step that only moves on. *)
LEMMA GotoStep ==
  ASSUME IInv, NEW j \in Jobs, NEW stage \in Stages, Goto(j, stage),
         \/ stage \in {"reset", "profiled", "ending"}
         \/ /\ \A f \in intake[j].files : intake[j].plan[f] \in Sources
            /\ stage \in {"extracting", "storing", "stored", "writing", "failing"} => intake[j].current \in intake[j].files,
         UNCHANGED <<active, cancelled, inventory, persisted>>,
         cache' \subseteq Pdfs \X Sources, corpus' \subseteq Pdfs \X Sources
  PROVE  IInv'
<1> DEFINE t == [intake[j] EXCEPT !.stage = stage]
<1>1. intake[j] \in Intake /\ CancellationTypeOK
  BY DEF IInv, TypeOK
<1>2. /\ t \in Intake /\ t.project = intake[j].project /\ t.done = intake[j].done /\ t.stage = stage
      /\ t.files = intake[j].files /\ t.plan = intake[j].plan /\ t.current = intake[j].current
      /\ t.copy = intake[j].copy
  BY <1>1 DEF Intake
<1>3. intake' = [intake EXCEPT ![j] = t]
  BY DEF Goto
<1>4. CancellationTypeOK'
  BY <1>1 DEF CancellationTypeOK
<1> HIDE DEF t
<1>5. Sane(t)
  BY <1>2 DEF Sane
<1> QED
  BY <1>2, <1>3, <1>4, <1>5, IntakeStep

(* And for one that loads the inventory and changes its copy, or is done   *)
(* with the copy.                                                          *)
LEMMA ChangeStep ==
  ASSUME IInv, NEW j \in Jobs, NEW stage \in Stages, NEW copy \in Copy, Change(j, stage, copy),
         \A f \in Listed(copy) : persisted[f] # NoText,
         \/ stage \in {"profiling", "profiled", "ending"}
         \/ /\ \A f \in intake[j].files : intake[j].plan[f] \in Sources
            /\ stage \in {"marking", "marked", "recording", "recorded"},
         UNCHANGED <<active, cancelled, inventory, persisted, cache, corpus>>
  PROVE  IInv'
<1> DEFINE t == [intake[j] EXCEPT !.stage = stage, !.copy = copy]
<1>1. intake[j] \in Intake /\ CancellationTypeOK /\ cache \subseteq Pdfs \X Sources
      /\ corpus \subseteq Pdfs \X Sources
  BY DEF IInv, TypeOK
<1>2. /\ t \in Intake /\ t.project = intake[j].project /\ t.done = intake[j].done /\ t.stage = stage
      /\ t.files = intake[j].files /\ t.plan = intake[j].plan /\ t.copy = copy
  BY <1>1 DEF Intake
<1>3. intake' = [intake EXCEPT ![j] = t]
  BY DEF Change
<1>4. CancellationTypeOK'
  BY <1>1 DEF CancellationTypeOK
<1> HIDE DEF t
<1>5. Sane(t)
  BY <1>2 DEF Sane
<1> QED
  BY <1>1, <1>2, <1>3, <1>4, <1>5, IntakeStep

LEMMA InitIInv == Init => IInv
<1> SUFFICES ASSUME Init PROVE IInv
  OBVIOUS
<1>1. TypeOK
  BY IdleIsSane DEF Init, TypeOK, CancellationInit, CancellationTypeOK, Statuses, NoPlan, OnDisk
<1>2. \A j \in Jobs : Sane(intake[j]) /\ Persisted(intake[j])
  BY IdleIsSane DEF Init, Persisted
<1>3. RecordedTextIsPersisted
  BY DEF Init, RecordedTextIsPersisted
<1> QED
  BY <1>1, <1>2, <1>3 DEF IInv

LEMMA NextIInv == IInv /\ [Next]_vars => IInv'
<1> SUFFICES ASSUME IInv, [Next]_vars PROVE IInv'
  OBVIOUS
<1>0. /\ CancellationTypeOK /\ intake \in [Jobs -> Intake] /\ handling \in [Pdfs -> Sources]
      /\ status \in [Pdfs -> Statuses] /\ persisted \in [Pdfs -> OnDisk]
      /\ cache \subseteq Pdfs \X Sources /\ corpus \subseteq Pdfs \X Sources
  BY DEF IInv, TypeOK
<1>s. \A j \in Jobs : Sane(intake[j])
  BY DEF IInv
<1>p. \A j \in Jobs : Persisted(intake[j])
  BY DEF IInv
<1>r. RecordedTextIsPersisted
  BY DEF IInv
<1>1. ASSUME NEW j \in Jobs, NEW project \in BOOLEAN, NEW files \in SUBSET Pdfs,
             NEW override \in Offered, StartIntake(j, project, files, override)
      PROVE  IInv'
  <2> DEFINE t == [Idle EXCEPT !.stage = "begun", !.project = project,
                               !.files = files, !.override = override]
  <2>1. t \in Intake /\ t.done = {} /\ t.copy = NoCopy /\ Sane(t)
    BY OfferedAssumption, IdleIsSane DEF Idle, Intake, Stages, Choices, NoPlan, Sane
  <2>2. intake' = [intake EXCEPT ![j] = t] /\ UNCHANGED <<inventory, persisted, cache, corpus>>
    BY <1>1 DEF StartIntake
  <2> HIDE DEF t
  <2>3. CancellationTypeOK'
    BY <1>0, <1>1 DEF StartIntake, Begin, CancellationTypeOK
  <2> QED
    BY <1>0, <2>1, <2>2, <2>3, IdleIsSane, IntakeStep
<1>2. ASSUME NEW j \in Jobs, Reset(j)
      PROVE  IInv'
  BY <1>2, GotoStep DEF Reset, Stages
<1>3. ASSUME NEW j \in Jobs, UpdateProfiles(j)
      PROVE  IInv'
  <2> DEFINE copy == [handling |-> [f \in Pdfs |-> IF f \in intake[j].files THEN intake[j].override
                                                   ELSE handling[f]],
                      status |-> [f \in Pdfs |-> IF f \in intake[j].files THEN "planned"
                                                 ELSE status[f]]]
  <2>1. UNCHANGED <<active, cancelled, inventory, persisted, cache, corpus>>
    BY <1>3 DEF UpdateProfiles
  <2>2. CASE Change(j, "profiling", copy) /\ intake[j].override \in Sources
    <3>1. copy \in Copy /\ Listed(copy) \subseteq Listed([status |-> status])
      BY <1>0, <2>2 DEF Copy, Listed, Statuses
    <3> HIDE DEF copy
    <3>2. \A f \in Listed(copy) : persisted[f] # NoText
      BY <1>r, <3>1 DEF Listed, RecordedTextIsPersisted
    <3> QED
      BY <2>1, <2>2, <3>1, <3>2, ChangeStep DEF Stages, Saving
  <2>3. CASE Goto(j, "profiled")
    BY <1>0, <2>1, <2>3, GotoStep DEF Stages
  <2> QED
    BY <1>3, <2>2, <2>3 DEF UpdateProfiles
<1>4. ASSUME NEW j \in Jobs, Plan(j)
      PROVE  IInv'
  <2> DEFINE plan == [f \in Pdfs |-> IF f \notin intake[j].files THEN NoText
                                   ELSE IF intake[j].override = "as_stored" THEN handling[f]
                                   ELSE intake[j].override]
             t == [intake[j] EXCEPT !.stage = "planned", !.plan = plan]
  <2>1. intake[j] \in Intake
    BY <1>0
  <2>2. plan \in [Pdfs -> Sources \cup {NoText}] /\ \A f \in intake[j].files : plan[f] \in Sources
    BY <1>0, <2>1 DEF Intake, Choices
  <2>3. intake' = [intake EXCEPT ![j] = t]
    BY <1>4 DEF Plan
  <2> HIDE DEF plan
  <2>4. /\ t \in Intake /\ t.project = intake[j].project /\ t.done = intake[j].done
        /\ t.files = intake[j].files /\ t.plan = plan /\ t.stage = "planned"
        /\ t.copy = intake[j].copy
    BY <2>1, <2>2 DEF Intake, Stages
  <2> HIDE DEF t
  <2>5. Sane(t)
    BY <2>2, <2>4 DEF Sane
  <2>6. CancellationTypeOK' /\ UNCHANGED <<inventory, persisted, cache, corpus>>
    BY <1>0, <1>4 DEF Plan, CancellationTypeOK
  <2> QED
    BY <1>0, <2>3, <2>4, <2>5, <2>6, IntakeStep
<1>5. ASSUME NEW j \in Jobs, Refuse(j) \/ Extract(j)
      PROVE  IInv'
  <2>1. PICK stage \in {"ending", "failing", "storing"} :
          Goto(j, stage) /\ (stage # "ending" => intake[j].stage = "extracting")
    BY <1>5 DEF Refuse, Extract
  <2>2. /\ UNCHANGED <<active, cancelled, inventory, persisted, corpus>>
        /\ cache' = cache \/ cache' = {}
    BY <1>5 DEF Refuse, Extract
  <2> QED
    BY <1>0, <1>s, <2>1, <2>2, GotoStep DEF Sane, Stages
<1>6. ASSUME NEW j \in Jobs, NEW f \in Pdfs, StartFile(j, f)
      PROVE  IInv'
  <2> DEFINE stage == IF cancelled[j] THEN "failing" ELSE "extracting"
             t == [intake[j] EXCEPT !.stage = stage, !.current = f]
  <2>1. intake[j] \in Intake /\ stage \in {"failing", "extracting"} /\ stage \in Stages
    BY <1>0 DEF Stages
  <2>2. intake' = [intake EXCEPT ![j] = t] /\ UNCHANGED <<active, cancelled, inventory, persisted, cache, corpus>>
    BY <1>6 DEF StartFile
  <2>3. intake[j].stage = "planned" /\ f \in intake[j].files
    BY <1>6 DEF StartFile
  <2> HIDE DEF stage
  <2>4. /\ t \in Intake /\ t.project = intake[j].project /\ t.done = intake[j].done
        /\ t.files = intake[j].files /\ t.plan = intake[j].plan /\ t.stage = stage /\ t.current = f
        /\ t.copy = intake[j].copy
    BY <2>1 DEF Intake
  <2> HIDE DEF t
  <2>5. Sane(t)
    BY <1>s, <2>1, <2>3, <2>4 DEF Sane, Stages
  <2>6. CancellationTypeOK'
    BY <1>0, <2>2 DEF CancellationTypeOK
  <2> QED
    BY <1>0, <2>2, <2>4, <2>5, <2>6, IntakeStep
<1>7. ASSUME NEW j \in Jobs, Store(j)
      PROVE  IInv'
  <2>1. /\ intake[j] \in Intake /\ intake[j].stage = "storing"
        /\ \A f \in intake[j].files : intake[j].plan[f] \in Sources
        /\ intake[j].current \in intake[j].files
    BY <1>0, <1>7, <1>s DEF Store, Sane, Stages
  <2>2. Text(j) \in Pdfs \X Sources
    BY <2>1 DEF Text, Intake
  <2>3. cache' \subseteq Pdfs \X Sources /\ UNCHANGED <<active, cancelled, inventory, persisted, corpus>>
    BY <1>0, <1>7, <2>2 DEF Store
  <2>4. CASE \E stage \in {"failing", "stored"} : Goto(j, stage)
    BY <1>0, <2>1, <2>3, <2>4, GotoStep DEF Stages
  <2>5. CASE /\ ~ intake[j].project
             /\ intake' = [intake EXCEPT ![j].stage = "planned", ![j].done = @ \cup {intake[j].current}]
    <3> DEFINE t == [intake[j] EXCEPT !.stage = "planned", !.done = @ \cup {intake[j].current}]
    <3>1. /\ t \in Intake /\ t.project = FALSE /\ t.stage = "planned"
          /\ t.files = intake[j].files /\ t.plan = intake[j].plan /\ t.copy = intake[j].copy
      BY <2>1, <2>5 DEF Intake, Stages
    <3>2. intake' = [intake EXCEPT ![j] = t]
      BY <2>5
    <3> HIDE DEF t
    <3>3. Sane(t) /\ CancellationTypeOK'
      BY <1>0, <2>1, <2>3, <3>1 DEF Sane, CancellationTypeOK
    <3> QED
      BY <1>0, <2>3, <3>1, <3>2, <3>3, IntakeStep
  <2> QED
    BY <1>7, <2>4, <2>5 DEF Store
<1>8. ASSUME NEW j \in Jobs, TruncateText(j) \/ WriteText(j)
      PROVE  IInv'
  <2>1. /\ intake[j] \in Intake /\ intake[j].stage \in {"stored", "writing"}
        /\ \A f \in intake[j].files : intake[j].plan[f] \in Sources
        /\ intake[j].current \in intake[j].files
    BY <1>0, <1>8, <1>s DEF TruncateText, WriteText, Sane, Stages
  <2>2. UNCHANGED <<active, cancelled, inventory, cache, corpus>>
    BY <1>8 DEF TruncateText, WriteText
  <2>3. intake[j].current \in Pdfs
    BY <2>1 DEF Intake
  <2>4. CASE Goto(j, "ending") /\ UNCHANGED persisted
    BY <1>0, <2>2, <2>4, GotoStep DEF Stages
  <2>5. ASSUME NEW text \in Sources \cup {Torn}, NEW t \in Intake,
               persisted' = [persisted EXCEPT ![intake[j].current] = text],
               intake' = [intake EXCEPT ![j] = t],
               t.stage \in {"writing", "planned"}, t.current = intake[j].current,
               t.project = intake[j].project, t.files = intake[j].files, t.plan = intake[j].plan,
               t.done \subseteq intake[j].done \cup {intake[j].current}, t.copy = intake[j].copy
        PROVE  IInv'
    <3>1. text # NoText /\ text \in OnDisk
      BY DEF Sources, Torn, NoText, OnDisk
    <3>2. /\ persisted' \in [Pdfs -> OnDisk]
          /\ \A f \in Pdfs : persisted[f] # NoText => persisted'[f] # NoText
          /\ persisted'[intake[j].current] # NoText
      BY <1>0, <2>3, <2>5, <3>1
    <3>3. TypeOK'
      BY <1>0, <2>2, <2>5, <3>2 DEF TypeOK, CancellationTypeOK, inventory
    <3>4. \A k \in Jobs : Sane(intake'[k])
      BY <1>0, <1>s, <2>1, <2>5 DEF Sane
    <3>5. \A k \in Jobs : Persisted(intake[k])'
      <4> TAKE k \in Jobs
      <4>1. intake[k].done \in SUBSET Pdfs /\ Listed(intake[k].copy) \subseteq Pdfs
        BY <1>0 DEF Intake, Listed
      <4>2. CASE k = j
        BY <1>0, <1>p, <2>5, <3>2, <4>1, <4>2 DEF Persisted
      <4>3. CASE k # j
        BY <1>0, <1>p, <2>5, <3>2, <4>1, <4>3 DEF Persisted
      <4> QED
        BY <4>2, <4>3
    <3>6. RecordedTextIsPersisted'
      BY <1>r, <2>2, <3>2 DEF RecordedTextIsPersisted, inventory
    <3> QED
      BY <3>3, <3>4, <3>5, <3>6 DEF IInv, Sane
  <2>6. CASE /\ persisted' = [persisted EXCEPT ![intake[j].current] = Torn]
             /\ Goto(j, "writing")
    <3> DEFINE t == [intake[j] EXCEPT !.stage = "writing"]
    <3>1. /\ t \in Intake /\ t.stage = "writing" /\ t.current = intake[j].current
          /\ t.project = intake[j].project /\ t.files = intake[j].files
          /\ t.plan = intake[j].plan /\ t.done = intake[j].done /\ t.copy = intake[j].copy
      BY <2>1 DEF Intake, Stages
    <3>2. intake' = [intake EXCEPT ![j] = t]
      BY <2>6 DEF Goto
    <3> HIDE DEF t
    <3> QED
      BY <2>5, <2>6, <3>1, <3>2
  <2>7. ASSUME NEW text \in {Text(j)[2], Torn},
               persisted' = [persisted EXCEPT ![intake[j].current] = text],
               intake' = [intake EXCEPT ![j].stage = "planned",
                                        ![j].done = @ \cup {intake[j].current}]
        PROVE  IInv'
    <3> DEFINE t == [intake[j] EXCEPT !.stage = "planned", !.done = @ \cup {intake[j].current}]
    <3>1. /\ t \in Intake /\ t.stage = "planned" /\ t.current = intake[j].current
          /\ t.project = intake[j].project /\ t.files = intake[j].files
          /\ t.plan = intake[j].plan /\ t.done = intake[j].done \cup {intake[j].current}
          /\ t.copy = intake[j].copy
      BY <2>1, <2>3 DEF Intake, Stages
    <3>2. intake' = [intake EXCEPT ![j] = t]
      BY <2>7
    <3> HIDE DEF t
    <3>3. text \in Sources \cup {Torn}
      BY <2>1 DEF Text
    <3> QED
      BY <2>5, <2>7, <3>1, <3>2, <3>3
  <2>8. CASE TruncateText(j)
    BY <2>4, <2>6, <2>8 DEF TruncateText
  <2>9. CASE WriteText(j)
    <3>1. \/ Goto(j, "ending") /\ UNCHANGED persisted
          \/ \E text \in {Text(j)[2], Torn} :
               /\ persisted' = [persisted EXCEPT ![intake[j].current] = text]
               /\ intake' = [intake EXCEPT ![j].stage = "planned",
                                           ![j].done = @ \cup {intake[j].current}]
      BY <2>9 DEF WriteText
    <3> QED
      BY <2>4, <2>7, <3>1
  <2> QED
    BY <1>8, <2>8, <2>9
<1>9. ASSUME NEW j \in Jobs, MarkFailed(j) \/ RecordResults(j)
      PROVE  IInv'
  <2>1. /\ intake[j] \in Intake
        /\ \A f \in intake[j].files : intake[j].plan[f] \in Sources
        /\ UNCHANGED <<active, cancelled, inventory, persisted, cache, corpus>>
    BY <1>0, <1>9, <1>s DEF MarkFailed, RecordResults, Sane, Stages
  <2>2. CASE \E stage \in {"marked", "ending", "recorded"} : Goto(j, stage)
    BY <1>0, <2>1, <2>2, GotoStep DEF Stages
  <2>3. ASSUME NEW stage \in {"marking", "recording"}, NEW new \in [Pdfs -> Statuses],
               Change(j, stage, [handling |-> handling, status |-> new]),
               \A f \in Pdfs : new[f] \in {"extracted", "ocr_generated"} =>
                                 new[f] = status[f] \/ persisted[f] # NoText
        PROVE  IInv'
    <3> DEFINE copy == [handling |-> handling, status |-> new]
    <3>1. copy \in Copy /\ \A f \in Listed(copy) : persisted[f] # NoText
      BY <1>0, <1>r, <2>3 DEF Copy, Listed, RecordedTextIsPersisted
    <3> HIDE DEF copy
    <3> QED
      BY <2>1, <2>3, <3>1, ChangeStep DEF Stages, Saving, copy
  <2>4. CASE MarkFailed(j)
    <3> DEFINE new == [status EXCEPT ![intake[j].current] = "failed"]
    <3>1. /\ new \in [Pdfs -> Statuses]
          /\ \A f \in Pdfs : new[f] \in {"extracted", "ocr_generated"} => new[f] = status[f]
      BY <1>0 DEF Statuses
    <3>2. Goto(j, "marked") \/ Change(j, "marking", [handling |-> handling, status |-> new])
      BY <2>4 DEF MarkFailed
    <3> HIDE DEF new
    <3> QED
      BY <2>2, <2>3, <3>1, <3>2
  <2>5. CASE RecordResults(j)
    <3> DEFINE new == [f \in Pdfs |-> IF f \notin intake[j].files THEN status[f]
                                      ELSE IF handling[f] = "ocr" THEN "ocr_generated" ELSE "extracted"]
    <3>1. intake[j].project => \A f \in intake[j].files : persisted[f] # NoText
      BY <1>p, <2>5 DEF RecordResults, Persisted
    <3>2. /\ new \in [Pdfs -> Statuses]
          /\ intake[j].project => \A f \in Pdfs : new[f] = status[f] \/ persisted[f] # NoText
      BY <1>0, <3>1 DEF Statuses
    <3>3. \/ \E stage \in {"ending", "recorded"} : Goto(j, stage)
          \/ intake[j].project /\ Change(j, "recording", [handling |-> handling, status |-> new])
      BY <2>5 DEF RecordResults
    <3> HIDE DEF new
    <3> QED
      BY <2>2, <2>3, <3>2, <3>3
  <2> QED
    BY <1>9, <2>4, <2>5
<1>10. ASSUME NEW j \in Jobs, SaveInventory(j)
       PROVE  IInv'
  <2>1. /\ intake[j] \in Intake /\ intake[j].stage \in Saving
        /\ UNCHANGED <<active, cancelled, persisted, cache, corpus>>
    BY <1>0, <1>10 DEF SaveInventory
  <2>2. PICK stage \in {"profiled", "marked", "recorded", "ending"} :
          /\ Change(j, stage, NoCopy)
          /\ stage \in {"profiled", "ending"} \/ intake[j].stage # "profiling"
    BY <1>10, <2>1 DEF SaveInventory, Saving
  <2>3. stage \in Stages /\ (stage \in {"profiled", "ending"}
                             \/ \A f \in intake[j].files : intake[j].plan[f] \in Sources)
    BY <1>s, <2>1, <2>2 DEF Sane, Saving, Stages
  <2>4. CASE UNCHANGED inventory
    BY <2>1, <2>2, <2>3, <2>4, IdleIsSane, ChangeStep
  <2>5. CASE handling' = intake[j].copy.handling /\ status' = intake[j].copy.status
    <3> DEFINE t == [intake[j] EXCEPT !.stage = stage, !.copy = NoCopy]
    <3>1. /\ t \in Intake /\ t.project = intake[j].project /\ t.done = intake[j].done
          /\ t.files = intake[j].files /\ t.plan = intake[j].plan /\ t.copy = NoCopy /\ t.stage = stage
      BY <2>1, <2>3, IdleIsSane DEF Intake
    <3>2. intake' = [intake EXCEPT ![j] = t]
      BY <2>2 DEF Change
    <3> HIDE DEF t
    <3>3. handling' \in [Pdfs -> Sources] /\ status' \in [Pdfs -> Statuses]
      BY <2>1, <2>5 DEF Intake, Copy
    <3>4. TypeOK'
      BY <1>0, <2>1, <3>1, <3>2, <3>3 DEF TypeOK, CancellationTypeOK
    <3>5. \A k \in Jobs : Sane(intake'[k])
      BY <1>0, <1>s, <2>2, <2>3, <3>1, <3>2 DEF Sane
    <3>6. \A k \in Jobs : Persisted(intake[k])'
      BY <1>0, <1>p, <2>1, <3>1, <3>2, IdleIsSane DEF Persisted, Listed
    <3>7. RecordedTextIsPersisted'
      BY <1>p, <2>1, <2>5 DEF RecordedTextIsPersisted, Persisted, Listed
    <3> QED
      BY <3>4, <3>5, <3>6, <3>7 DEF IInv, Sane
  <2> QED
    BY <1>10, <2>4, <2>5 DEF SaveInventory
<1>11. ASSUME NEW j \in Jobs, ClearAfterFailure(j)
       PROVE  IInv'
  BY <1>0, <1>11, GotoStep DEF ClearAfterFailure, Stages
<1>12. ASSUME NEW j \in Jobs, LoadCorpus(j)
       PROVE  IInv'
  <2>1. /\ intake[j] \in Intake /\ \A f \in intake[j].files : intake[j].plan[f] \in Sources
    BY <1>0, <1>12, <1>s DEF LoadCorpus, Sane, Stages
  <2>2. corpus' \subseteq Pdfs \X Sources
    BY <1>12, <2>1 DEF LoadCorpus, Intake
  <2> QED
    BY <1>0, <1>12, <2>2, GotoStep DEF LoadCorpus, Stages
<1>13. ASSUME NEW j \in Jobs, EndIntake(j)
       PROVE  IInv'
  <2>1. CancellationTypeOK'
    BY <1>0, <1>13 DEF EndIntake, Finish, CancellationTypeOK
  <2>2. intake' = [intake EXCEPT ![j] = Idle] /\ UNCHANGED <<inventory, persisted, cache, corpus>>
    BY <1>13 DEF EndIntake
  <2> QED
    BY <1>0, <2>1, <2>2, IdleIsSane, IntakeStep
<1>14. CASE RequestCancel
  <2>1. CancellationTypeOK'
    BY <1>0, <1>14 DEF RequestCancel, Cancel, CancellationTypeOK
  <2>2. UNCHANGED <<intake, inventory, persisted, cache, corpus>>
    BY <1>14 DEF RequestCancel
  <2> QED
    BY <1>0, <1>s, <1>p, <1>r, <2>1, <2>2
       DEF IInv, TypeOK, Sane, Persisted, RecordedTextIsPersisted, inventory
<1>15. CASE Crash
  <2>1. UNCHANGED <<inventory, persisted>> /\ \A j \in Jobs : intake'[j] = Idle
    BY <1>15 DEF Crash
  <2>2. TypeOK'
    BY <1>0, <1>15, IdleIsSane DEF Crash, TypeOK, CancellationTypeOK, inventory
  <2> QED
    BY <1>r, <2>1, <2>2, IdleIsSane DEF IInv, Sane, Persisted, RecordedTextIsPersisted, inventory
<1>16. CASE UNCHANGED vars
  BY <1>0, <1>s, <1>p, <1>r, <1>16
     DEF vars, IInv, TypeOK, CancellationTypeOK, Sane, Persisted, RecordedTextIsPersisted, inventory
<1> QED
  BY <1>1, <1>2, <1>3, <1>4, <1>5, <1>6, <1>7, <1>8, <1>9, <1>10, <1>11, <1>12, <1>13, <1>14, <1>15, <1>16
     DEF Next, Step

(* The intakes keep their types whatever overlaps, fails or is cut off.    *)
THEOREM TypeCorrect == Spec => []TypeOK
<1>1. IInv => TypeOK
  BY DEF IInv
<1>2. QED
  BY <1>1, InitIInv, NextIInv, PTL DEF Spec

(* A source listed as extracted has a text file: an intake records only    *)
(* what it persisted, and nothing removes a persisted text.                *)
THEOREM RecordedTextStaysPersisted == Spec => []RecordedTextIsPersisted
<1>1. IInv => RecordedTextIsPersisted
  BY DEF IInv
<1>2. QED
  BY <1>1, InitIInv, NextIInv, PTL DEF Spec

-------------------------------------------------------------------------------
(* The intakes at work whose token is clear, as the jobs of OneActiveJob.  *)
LiveIntakes == {j \in Jobs : intake[j].stage # "idle" /\ ~cancelled[j]}

(* What the cancel command relies on: the slot holds the token of the      *)
(* intake that is live.                                                    *)
LiveIntakeIsTracked == \A j \in LiveIntakes : active = j

Promise == INSTANCE OneActiveJob WITH live <- LiveIntakes

(* Between its begin and its end an intake only moves on; tokens stay.     *)
LEMMA InnerStep ==
  ASSUME IInv, NEW j \in Jobs, Step(j), ~EndIntake(j)
  PROVE  UNCHANGED <<active, cancelled, LiveIntakes>>
<1>0. intake \in [Jobs -> Intake]
  BY DEF IInv, TypeOK
<1>1. UNCHANGED <<active, cancelled>>
  BY DEF Step, Reset, UpdateProfiles, SaveInventory, Plan, Refuse, StartFile, Extract, Store,
         TruncateText, WriteText, MarkFailed, ClearAfterFailure, RecordResults, LoadCorpus
<1>2. intake[j].stage # "idle"
  BY DEF Step, Reset, UpdateProfiles, SaveInventory, Plan, Refuse, StartFile, Extract, Store,
         TruncateText, WriteText, MarkFailed, ClearAfterFailure, RecordResults, LoadCorpus, Saving
<1>3. (\A k \in Jobs : k # j => intake'[k] = intake[k]) /\ intake'[j].stage # "idle"
  <2> USE <1>0 DEF Goto, Change, Intake
  <2>1. CASE Reset(j) \/ UpdateProfiles(j) \/ Plan(j) \/ Refuse(j)
    BY <2>1 DEF Reset, UpdateProfiles, Plan, Refuse
  <2>2. CASE SaveInventory(j)
    BY <2>2 DEF SaveInventory, Saving
  <2>3. ASSUME NEW f \in Pdfs, StartFile(j, f)
        PROVE  (\A k \in Jobs : k # j => intake'[k] = intake[k]) /\ intake'[j].stage # "idle"
    BY <2>3 DEF StartFile
  <2>4. CASE Extract(j) \/ Store(j)
    BY <2>4 DEF Extract, Store
  <2>5. CASE TruncateText(j) \/ WriteText(j)
    BY <2>5 DEF TruncateText, WriteText
  <2>6. CASE MarkFailed(j) \/ ClearAfterFailure(j) \/ RecordResults(j) \/ LoadCorpus(j)
    BY <2>6 DEF MarkFailed, ClearAfterFailure, RecordResults, LoadCorpus
  <2> QED
    BY <2>1, <2>2, <2>3, <2>4, <2>5, <2>6 DEF Step
<1> QED
  BY <1>1, <1>2, <1>3 DEF LiveIntakes

LEMMA IntakeStepImplements ==
  IInv /\ LiveIntakeIsTracked /\ [Next]_vars
    => LiveIntakeIsTracked' /\ [Promise!Next]_LiveIntakes
<1> SUFFICES ASSUME IInv, LiveIntakeIsTracked, [Next]_vars
             PROVE  LiveIntakeIsTracked' /\ (Promise!Next \/ UNCHANGED LiveIntakes)
  OBVIOUS
<1>0. /\ intake \in [Jobs -> Intake] /\ cancelled \in [Jobs -> BOOLEAN]
  BY DEF IInv, TypeOK, CancellationTypeOK
<1>1. ASSUME NEW j \in Jobs, Step(j), ~EndIntake(j)
      PROVE  LiveIntakeIsTracked' /\ UNCHANGED LiveIntakes
  BY <1>1, InnerStep DEF LiveIntakeIsTracked
<1>2. ASSUME NEW j \in Jobs, EndIntake(j)
      PROVE  LiveIntakeIsTracked' /\ Promise!Leave(j)
  <2>1. /\ UNCHANGED cancelled /\ intake' = [intake EXCEPT ![j] = Idle]
        /\ active' = IF active = j THEN NoJob ELSE active
    BY <1>2 DEF EndIntake, Finish
  <2>2. LiveIntakes' = LiveIntakes \ {j}
    BY <1>0, <2>1 DEF LiveIntakes, Idle
  <2> QED
    BY <2>1, <2>2 DEF LiveIntakeIsTracked, Promise!Leave
<1>3. ASSUME NEW j \in Jobs, NEW project \in BOOLEAN, NEW files \in SUBSET Pdfs,
             NEW override \in Offered, StartIntake(j, project, files, override)
      PROVE  LiveIntakeIsTracked' /\ Promise!Start(j)
  <2>1. /\ cancelled' = [k \in Jobs |-> k # j /\ (cancelled[k] \/ k = active)] /\ active' = j
        /\ \A k \in Jobs : k # j => intake'[k] = intake[k]
        /\ intake'[j].stage = "begun"
    BY <1>0, <1>3 DEF StartIntake, Begin, Intake, Idle
  <2>2. LiveIntakes' = {j}
    BY <2>1 DEF LiveIntakes, LiveIntakeIsTracked
  <2> QED
    BY <2>1, <2>2 DEF LiveIntakeIsTracked, Promise!Start
<1>4. ASSUME RequestCancel
      PROVE  LiveIntakeIsTracked' /\ Promise!Stop
  <2>1. LiveIntakes' = {}
    BY <1>4 DEF RequestCancel, Cancel, LiveIntakes, LiveIntakeIsTracked
  <2> QED
    BY <2>1 DEF LiveIntakeIsTracked, Promise!Stop
<1>5. ASSUME Crash
      PROVE  LiveIntakeIsTracked' /\ Promise!Stop
  <2>1. LiveIntakes' = {}
    BY <1>5 DEF Crash, LiveIntakes, Idle
  <2> QED
    BY <2>1 DEF LiveIntakeIsTracked, Promise!Stop
<1>6. ASSUME UNCHANGED vars
      PROVE  LiveIntakeIsTracked' /\ UNCHANGED LiveIntakes
  BY <1>6 DEF vars, LiveIntakes, LiveIntakeIsTracked
<1> QED
  BY <1>1, <1>2, <1>3, <1>4, <1>5, <1>6 DEF Next, Promise!Next

LEMMA LiveIntakeInvariance == Spec => [](IInv /\ LiveIntakeIsTracked)
<1>1. Init => IInv /\ LiveIntakeIsTracked
  BY InitIInv DEF Init, LiveIntakeIsTracked, LiveIntakes, Idle
<1>2. IInv /\ LiveIntakeIsTracked /\ [Next]_vars => (IInv /\ LiveIntakeIsTracked)'
  BY NextIInv, IntakeStepImplements
<1> QED
  BY <1>1, <1>2, PTL DEF Spec

(* The intakes that were not cancelled implement OneActiveJob: one that    *)
(* starts takes the right to deliver from the one at work, and the cancel  *)
(* command, like the end of the program, leaves none                       *)
(* (ActiveCancellation, cancel_pdf_intake_materialization_command).     *)
THEOREM IntakesImplementOneActiveJob == Spec => Promise!Spec
<1>1. Init => Promise!Init
  BY DEF Init, Promise!Init, LiveIntakes, Idle
<1> QED
  BY <1>1, IntakeStepImplements, LiveIntakeInvariance, PTL DEF Spec, Promise!Spec

===============================================================================
