--------------------------- MODULE BrainPipeline ---------------------------
(***************************************************************************)
(* server/brain: one content is taken in (service), run through the stages *)
(* of the pipeline (pipeline/runner and its stages), processed again on    *)
(* demand (service, ingest/ocr) and moved between tiers every night        *)
(* (jobs/tiering).  Each stage first writes its artifact and then the name *)
(* of the stage, and what a later stage needs of it is a local variable of *)
(* the run, which a run that resumes further on does not have.             *)
(*                                                                         *)
(* An artifact is the edition of the content it was made from, 0 if there  *)
(* is none.  Stages: 0 intake, 1 clean, 2 summarize, 3 extract, 4 link,    *)
(* 5 embed, 6 index.                                                       *)
(***************************************************************************)
EXTENDS Naturals, TLC

CONSTANTS Drafts,       \* calls of store_draft with the same content and source
          Runs,         \* pipeline runs that may be under way
          MaxEditions,  \* bound on processing again
          MaxFaults,    \* bound on failures and crashes
          MaxNights     \* bound on runs of the tiering job

VARIABLES row,          \* brain_objects: the one object of this content
          chunks,       \* brain_chunks: the edition they were cut from
          draft, run,
          job,          \* what the tiering job read of the row
          edition, faults, nights,
          orderly       \* no run of this edition started Unready

vars == <<row, chunks, draft, run, job, edition, faults, nights, orderly>>

NoArtifacts == [clean |-> 0, summary |-> 0, entities |-> 0, links |-> 0]
NoRow == [stage |-> 0, parked |-> FALSE, tier |-> "none"] @@ NoArtifacts
Artifacts(object) == [field \in DOMAIN NoArtifacts |-> object[field]]

\* obj is the row as the run read it when it began.
Idle == [at |-> "idle", next |-> 0, text |-> 0, bound |-> FALSE, obj |-> NoArtifacts]
NoJob == [tier |-> "none", linked |-> FALSE]

Exists == row.tier # "none"
Active == {r \in Runs : run[r].at # "idle"}

Init ==
  /\ row = NoRow /\ chunks = 0 /\ edition = 1 /\ faults = 0 /\ nights = 0 /\ orderly = TRUE
  /\ draft = [d \in Drafts |-> "new"]
  /\ run = [r \in Runs |-> Idle]
  /\ job = NoJob

-----------------------------------------------------------------------------
(* store_draft().                                                          *)

Goto(d, stage) == draft' = [draft EXCEPT ![d] = stage]

\* The look-up by content; then the raw bytes are stored.
LookUp(d) ==
  /\ draft[d] = "new"
  /\ Goto(d, IF Exists THEN "answered" ELSE "stored")
  /\ UNCHANGED <<row, chunks, run, job, edition, faults, nights, orderly>>

\* insert_object() with ON CONFLICT DO NOTHING: the loser of a race answers
\* with the winner's object.
Insert(d) ==
  /\ draft[d] = "stored"
  /\ \/ Exists /\ Goto(d, "answered") /\ UNCHANGED row
     \/ ~Exists /\ Goto(d, "inserted") /\ row' = [NoRow EXCEPT !.tier = "warm"]
  /\ UNCHANGED <<chunks, run, job, edition, faults, nights, orderly>>

\* run_pipeline() reads the row and decides where to go on: a parked stage is
\* tried again and loses its mark, otherwise the stage after the last one.
Resume == IF row.parked THEN row.stage ELSE row.stage + 1

\* Another run is under way; or the run goes on at summarize, finds the summary
\* written and so has no text for the stages behind it; or it goes on at index,
\* where the row names the stage although the retry always fails (Unbound).
Unready(now) == Active # {} \/ (Resume = 2 /\ now.summary # 0) \/ Resume = 6

Start(r, now) ==
  /\ run[r].at = "idle"
  /\ IF Resume > 6 THEN UNCHANGED <<run, row, orderly>>
     ELSE /\ run' = [run EXCEPT ![r] = [at |-> "work", next |-> Resume, text |-> 0,
                                        bound |-> FALSE, obj |-> Artifacts(now)]]
          /\ row' = [now EXCEPT !.parked = FALSE]
          /\ orderly' = (orderly /\ ~Unready(now))

\* The background task of the new object.
Task(d) ==
  /\ draft[d] = "inserted" /\ Goto(d, "answered")
  /\ \E r \in Runs : Start(r, row)
  /\ UNCHANGED <<chunks, job, edition, faults, nights>>

-----------------------------------------------------------------------------
(* A run of the pipeline.                                                  *)

Works(r, updates) == run' = [run EXCEPT ![r] = updates]

\* Stage clean; the text is the one of the content as it is now.
Clean(r) ==
  LET s == run[r] IN
    /\ s.next = 1
    /\ row' = IF s.obj.clean = 0 THEN [row EXCEPT !.clean = edition] ELSE row
    /\ Works(r, [s EXCEPT !.at = "mark", !.text = IF s.obj.clean = 0 THEN edition ELSE s.obj.clean])
    /\ UNCHANGED chunks

\* Stage summarize cleans again when it was resumed at and has no text.
Summarize(r) ==
  LET s == run[r]
      again == s.text = 0 /\ s.obj.summary = 0
      text == IF again THEN edition ELSE s.text
  IN /\ s.next = 2
     /\ row' = [row EXCEPT !.clean = IF again THEN edition ELSE @,
                           !.summary = IF s.obj.summary = 0 THEN text ELSE @]
     /\ Works(r, [s EXCEPT !.at = "mark", !.text = text, !.bound = TRUE])
     /\ UNCHANGED chunks

\* Mutant: the text is the one of the row as it was read.
ExtractFromRow(r) ==
  LET s == run[r] IN
    /\ s.next = 3
    /\ row' = IF s.obj.entities = 0 THEN [row EXCEPT !.entities = s.obj.clean] ELSE row
    /\ Works(r, [s EXCEPT !.at = "mark"])
    /\ UNCHANGED chunks

\* Stage extract: without a text there is nothing to find.
Extract(r) ==
  LET s == run[r] IN
    /\ s.next = 3
    /\ row' = IF s.obj.entities = 0 THEN [row EXCEPT !.entities = s.text] ELSE row
    /\ Works(r, [s EXCEPT !.at = "mark"])
    /\ UNCHANGED chunks

\* Stage link: the summary is a local of stage summarize.
Unbound(s) == ~s.bound /\ (s.next = 6 \/ (s.next = 4 /\ s.obj.links = 0))

Link(r) ==
  LET s == run[r] IN
    /\ s.next = 4 /\ ~Unbound(s)
    /\ row' = IF s.obj.links = 0 THEN [row EXCEPT !.links = edition] ELSE row
    /\ Works(r, [s EXCEPT !.at = "mark"])
    /\ UNCHANGED chunks

\* Stage embed: without a text there are no chunks to store.
Embed(r) ==
  LET s == run[r] IN
    /\ s.next = 5
    /\ chunks' = IF s.text = 0 THEN chunks ELSE s.text
    /\ Works(r, [s EXCEPT !.at = "mark"])
    /\ UNCHANGED row

Index(r) ==
  LET s == run[r] IN
    /\ s.next = 6 /\ ~Unbound(s)
    /\ row' = [row EXCEPT !.tier = "hot"]
    /\ Works(r, [s EXCEPT !.at = "mark"])
    /\ UNCHANGED chunks

Work(r) ==
  /\ run[r].at = "work"
  /\ Clean(r) \/ Summarize(r) \/ Extract(r) \/ Link(r) \/ Embed(r) \/ Index(r)
  /\ UNCHANGED <<draft, job, edition, faults, nights, orderly>>

\* _set_stage(): the name of the stage after its artifact.
Mark(r) ==
  LET s == run[r] IN
    /\ s.at = "mark"
    /\ row' = [row EXCEPT !.stage = s.next, !.parked = FALSE]
    /\ run' = [run EXCEPT ![r] = IF s.next = 6 THEN Idle
                                 ELSE [s EXCEPT !.at = "work", !.next = s.next + 1]]
    /\ UNCHANGED <<chunks, draft, job, edition, faults, nights, orderly>>

Park(r) ==
  /\ row' = [row EXCEPT !.stage = run[r].next, !.parked = TRUE]
  /\ run' = [run EXCEPT ![r] = Idle]

\* A stage, or the store it writes to, fails.
StageFails(r) ==
  /\ run[r].at # "idle" /\ faults < MaxFaults /\ faults' = faults + 1
  /\ Park(r)
  /\ UNCHANGED <<chunks, draft, job, edition, nights, orderly>>

\* Reading a local variable that has no value is an error like any other.
Misses(r) ==
  /\ run[r].at = "work" /\ Unbound(run[r])
  /\ Park(r)
  /\ UNCHANGED <<chunks, draft, job, edition, faults, nights, orderly>>

-----------------------------------------------------------------------------
(* Again.                                                                  *)

\* run_pipeline_for_object().
RunAgain ==
  /\ Exists
  /\ \E r \in Runs : Start(r, row)
  /\ UNCHANGED <<chunks, draft, job, edition, faults, nights>>

\* The derived fields of a row, as both kinds of reprocessing leave them.
Cleared == [NoRow EXCEPT !.tier = "warm"]

\* reprocess_object() clears the row first and reads it again.
Reprocess ==
  /\ Exists /\ edition < MaxEditions /\ edition' = edition + 1
  /\ \E r \in Runs \ Active :
       /\ run' = [run EXCEPT ![r] = [Idle EXCEPT !.at = "work", !.next = 1,
                                      !.obj = Artifacts(Cleared)]]
       /\ row' = Cleared /\ orderly' = (Active = {})
  /\ UNCHANGED <<chunks, draft, job, faults, nights>>

\* OCR reprocess_existing(): the text comes with it.
ReprocessOcr ==
  /\ Exists /\ edition < MaxEditions /\ edition' = edition + 1
  /\ LET now == [Cleared EXCEPT !.clean = edition + 1] IN
       \E r \in Runs \ Active :
         /\ run' = [run EXCEPT ![r] = [Idle EXCEPT !.at = "work", !.next = 1,
                                        !.obj = Artifacts(now)]]
         /\ row' = now /\ orderly' = (Active = {})
  /\ UNCHANGED <<chunks, draft, job, faults, nights>>

\* run_tiering_job(): all rows are read first.
TieringReads ==
  /\ Exists /\ job = NoJob /\ nights < MaxNights /\ nights' = nights + 1
  /\ job' = [tier |-> row.tier, linked |-> row.links # 0]
  /\ UNCHANGED <<row, chunks, draft, run, edition, faults, orderly>>

\* _compute_target_tier(): hot for a week, and as long as it has market keys,
\* whatever stage it is at; cold drops the chunks.
TieringWrites ==
  /\ job # NoJob /\ job' = NoJob
  /\ \E age \in {"week", "quarter", "old"} :
       LET target == CASE age = "week" \/ job.linked -> "hot"
                       [] age = "quarter" -> "warm"
                       [] OTHER -> "cold"
       IN /\ row' = IF target = job.tier THEN row ELSE [row EXCEPT !.tier = target]
          /\ chunks' \in IF target = "cold" /\ target # job.tier THEN {0, chunks} ELSE {chunks}
          /\ orderly' = (orderly /\ target # "cold")
  /\ UNCHANGED <<draft, run, edition, faults, nights>>

\* The process ends: tasks are not started again.
Crash ==
  /\ faults < MaxFaults /\ faults' = faults + 1
  /\ run' = [r \in Runs |-> Idle]
  /\ draft' = [d \in Drafts |-> IF draft[d] = "new" THEN "new" ELSE "answered"]
  /\ job' = NoJob
  /\ UNCHANGED <<row, chunks, edition, nights, orderly>>

Next ==
  \/ \E d \in Drafts : LookUp(d) \/ Insert(d) \/ Task(d)
  \/ \E r \in Runs : Work(r) \/ Mark(r) \/ StageFails(r) \/ Misses(r)
  \/ RunAgain \/ Reprocess \/ ReprocessOcr \/ TieringReads \/ TieringWrites \/ Crash

Spec == Init /\ [][Next]_vars

-----------------------------------------------------------------------------
\* An object is indexed with all its artifacts made from the content as it was
\* processed last, whatever failed, and at whatever stage its runs resumed, but
\* for the runs that started Unready: one that resumed at summarize with the
\* summary already written indexes the object without entities and chunks.
IndexedIsComplete ==
  (orderly /\ Exists /\ row.stage = 6 /\ ~row.parked) =>
    \A artifact \in {row.clean, row.summary, row.entities, row.links, chunks} : artifact = edition

\* "Resume: if current_stage starts with 'parked:' the runner retries that
\* stage" (runner.py): the retry has the values the stage works on.
RetriedStageRuns == \A r \in Runs : run[r].at = "work" => ~Unbound(run[r])

\* "Nothing is recallable until the final index stage sets tier=hot"
\* (runner.py): recall takes every tier but cold.
NotBeforeIndex ==
  (Exists /\ row.tier # "cold" /\ (row.summary # 0 \/ chunks # 0)) => row.stage = 6
=============================================================================
