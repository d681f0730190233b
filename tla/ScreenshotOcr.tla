--------------------------- MODULE ScreenshotOcr ---------------------------
(***************************************************************************)
(* The OCR loop of the ingestion fleet: every few seconds it lists the     *)
(* screenshots whose clean text still says that OCR is pending, newest     *)
(* first and at most a batch, recognizes each and runs the Brain pipeline  *)
(* over the result.  Screenshots are numbered in the order of intake.      *)
(***************************************************************************)
EXTENDS Integers, Sequences, FiniteSets, SequencesExt

CONSTANTS MaxShots, Limit, MaxFaults, Readable

VARIABLES taken,   \* how many screenshots the Brain holds
          clean,   \* of each: the placeholder or the recognized text
          stage,   \* of each: where its pipeline stands
          batch,   \* what the loop still has to look at
          pc, faults

vars == <<taken, clean, stage, batch, pc, faults>>

Shots == 1 .. MaxShots

Init ==
  /\ taken = 0 /\ batch = << >> /\ pc = "list" /\ faults = 0
  /\ clean = [o \in Shots |-> "placeholder"]
  /\ stage = [o \in Shots |-> "none"]

\* A screenshot is taken in; its pipeline indexes the placeholder.
Intake ==
  /\ taken < MaxShots
  /\ taken' = taken + 1
  /\ stage' = [stage EXCEPT ![taken + 1] = "indexed"]
  /\ UNCHANGED <<clean, batch, pc, faults>>

NewestFirst(n) == Reverse([k \in 1 .. n |-> k])
UpToLimit(list) == IF Len(list) > Limit THEN SubSeq(list, 1, Limit) ELSE list

\* Mutant: the marker is not looked for.
PendingUnfiltered == UpToLimit(NewestFirst(taken))

\* list_objects() gives the newest first; pending_screenshots() keeps those with
\* the marker, up to the limit.
Pending == UpToLimit(SelectSeq(NewestFirst(taken), LAMBDA o : clean[o] = "placeholder"))

List ==
  /\ pc = "list" /\ Pending # << >>
  /\ batch' = Pending /\ pc' = "recognize"
  /\ UNCHANGED <<taken, clean, stage, faults>>

\* What follows the last of the batch, and each one before it.
After(rest) == IF rest = << >> THEN "list" ELSE "recognize"

\* recognize() finds no text, or the image is not one: the loop logs it and goes
\* on to the next.
Unreadable ==
  /\ pc = "recognize" /\ Head(batch) \notin Readable
  /\ batch' = Tail(batch) /\ pc' = After(Tail(batch))
  /\ UNCHANGED <<taken, clean, stage, faults>>

\* reprocess_existing(): the text replaces the placeholder and the object goes
\* back to intake in one update, before its pipeline runs.
Rewrite ==
  /\ pc = "recognize" /\ Head(batch) \in Readable
  /\ clean' = [clean EXCEPT ![Head(batch)] = "text"]
  /\ stage' = [stage EXCEPT ![Head(batch)] = "intake"]
  /\ pc' = "pipeline"
  /\ UNCHANGED <<taken, batch, faults>>

RunPipeline ==
  /\ pc = "pipeline"
  /\ stage' = [stage EXCEPT ![Head(batch)] = "indexed"]
  /\ batch' = Tail(batch) /\ pc' = After(Tail(batch))
  /\ UNCHANGED <<taken, clean, faults>>

\* The storage or the database fails while the image is read.
ReadFails ==
  /\ pc = "recognize" /\ faults < MaxFaults /\ faults' = faults + 1
  /\ batch' = Tail(batch) /\ pc' = After(Tail(batch))
  /\ UNCHANGED <<taken, clean, stage>>

Restart ==
  /\ faults < MaxFaults /\ faults' = faults + 1
  /\ batch' = << >> /\ pc' = "list"
  /\ UNCHANGED <<taken, clean, stage>>

Next == Intake \/ List \/ Unreadable \/ Rewrite \/ RunPipeline \/ ReadFails \/ Restart

Spec == Init /\ [][Next]_vars
FairSpec == Spec /\ WF_vars(List) /\ WF_vars(Unreadable \/ Rewrite) /\ WF_vars(RunPipeline)

-----------------------------------------------------------------------------
Unread == {o \in 1 .. taken : o \notin Readable}

\* Unless unreadable screenshots fill every batch, each readable one gets its
\* text (runtime.py, _ocr_loop, and pipeline.py, pending_screenshots).
IsTaken(o) == o <= taken /\ Cardinality(Shots \ Readable) < Limit
IsRead(o) == clean[o] = "text"
ScreenshotsRead == \A o \in Readable \cap Shots : IsTaken(o) ~> IsRead(o)

\* The same without the condition.  Not so: the newest unreadable ones come first
\* in every batch.
NoStarvation == \A o \in Readable \cap Shots : (o <= taken) ~> clean[o] = "text"

\* A text that replaced the placeholder is indexed unless its pipeline is running.
\* Not so: after a restart nothing takes up the object that was at intake.
TextIndexed ==
  \A o \in Shots : clean[o] = "text" =>
    stage[o] = "indexed" \/ (pc = "pipeline" /\ Head(batch) = o)
=============================================================================
