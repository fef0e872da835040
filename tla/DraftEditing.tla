---------------------------- MODULE DraftEditing ----------------------------
(***************************************************************************)
(* The working draft of one beat of one author: the editor of every        *)
(* browser tab that has it open (DraftEditor.tsx: debounced autosave with  *)
(* the revision the tab knows), the use cases that save, seed and snapshot *)
(* it, and the validation report of a snapshot.                            *)
(*                                                                         *)
(* A use case is one READ COMMITTED transaction without a lock: it reads,  *)
(* and later writes under the condition its SQL states, so every use case  *)
(* has a reading and a writing step.  A tab sends its server actions one   *)
(* at a time, in the order it queued them; what a call carries is bound    *)
(* when its timer fires.                                                   *)
(***************************************************************************)
EXTENDS Integers, Sequences, FiniteSets

CONSTANTS Tabs,         \* the browser tabs
          Texts,        \* what can be typed
          Blank,        \* the content of an editor opened before any draft
          Candidate,    \* the text of a generated candidate
          Clean,        \* the contents the structural validators pass
          MaxRevision,  \* no text is typed once the draft has this revision
          MaxCalls,     \* bound on the autosaves one tab has queued
          MaxVersions   \* bound on the snapshots

ASSUME DraftAssumption ==
  /\ Blank \in Texts /\ Candidate \in Texts /\ Clean \subseteq Texts
  /\ {MaxRevision, MaxCalls, MaxVersions} \subseteq Nat

VARIABLES draft,     \* the row of prose_working_drafts
          tab,       \* the state and the refs of each DraftEditor
          calls,     \* the server actions a tab has queued, the first running
          seen,      \* the drafts a tab has loaded, or learned it had stored
          kept,      \* the content a tab last loaded or stored
          other,     \* the seed, snapshot or validation a tab is waiting for
          versions,  \* the snapshots of the beat, in order of insertion
          reports    \* the snapshots with a validation report: passed or not

draftVars == <<draft, tab, calls, seen, kept, other, versions, reports>>

NoDraft == -1
NoTimer == -1
Revisions == Nat \cup {NoDraft}

-----------------------------------------------------------------------------
(* The editor.                                                             *)

Loaded == IF draft.revision = NoDraft
          THEN [revision |-> 0, content |-> Blank]
          ELSE draft

(* A tab that shows what the page found: no timer, no banner.              *)
Opened(row) == [content |-> row.content, lastSaved |-> row.content,
                revision |-> row.revision, timer |-> NoTimer, banner |-> "none"]

DraftInit ==
  /\ draft = [revision |-> NoDraft, content |-> Blank]
  /\ tab = [t \in Tabs |-> Opened([revision |-> 0, content |-> Blank])]
  /\ calls = [t \in Tabs |-> <<>>]
  /\ seen = [t \in Tabs |-> {}]
  /\ kept = [t \in Tabs |-> Blank]
  /\ other = [t \in Tabs |-> [op |-> "none"]]
  /\ versions = <<>>
  /\ reports = [v \in {} |-> TRUE]

(* A keystroke: the text is kept, an error banner goes, and the timer is   *)
(* armed with the revision this render of the editor knows.                *)
Type(t, text) ==
  /\ draft.revision < MaxRevision
  /\ text # tab[t].content
  /\ tab' = [tab EXCEPT ![t] = [@ EXCEPT
       !.content = text, !.timer = tab[t].revision,
       !.banner = IF tab[t].banner = "error" THEN "none" ELSE tab[t].banner]]
  /\ UNCHANGED <<draft, calls, seen, kept, other, versions, reports>>

(* The timer fires: the latest text is sent with the revision captured     *)
(* when the timer was armed, unless it is what the editor thinks it saved. *)
Fire(t) ==
  /\ tab[t].timer # NoTimer
  /\ Len(calls[t]) < MaxCalls
  /\ tab' = [tab EXCEPT ![t] = [@ EXCEPT !.timer = NoTimer]]
  /\ calls' = IF tab[t].content = tab[t].lastSaved THEN calls
              ELSE [calls EXCEPT ![t] = Append(@,
                     [content |-> tab[t].content, expected |-> tab[t].timer,
                      stage |-> "sent", row |-> NoDraft])]
  /\ UNCHANGED <<draft, seen, kept, other, versions, reports>>

(* The page is loaded again: what was typed and not sent is gone.          *)
Reload(t) ==
  /\ calls[t] = <<>>
  /\ tab' = [tab EXCEPT ![t] = Opened(Loaded)]
  /\ seen' = [seen EXCEPT ![t] =
                IF draft.revision = NoDraft THEN @ ELSE @ \cup {draft}]
  /\ kept' = [kept EXCEPT ![t] = Loaded.content]
  /\ UNCHANGED <<draft, calls, other, versions, reports>>

-----------------------------------------------------------------------------
(* saveWorkingDraft.                                                       *)

Running(t, stage) == calls[t] # <<>> /\ Head(calls[t]).stage = stage
Moved(t, stage, row) ==
  [calls EXCEPT ![t] = <<[Head(@) EXCEPT !.stage = stage, !.row = row]>> \o Tail(@)]

(* decideWorkingDraftUpdate: a row is only updated from its own revision;  *)
(* without a row the editor must expect revision 0.                        *)
Expected(t) == Head(calls[t]).expected =
               (IF draft.revision = NoDraft THEN 0 ELSE draft.revision)

SaveRead(t) ==
  /\ Running(t, "sent")
  /\ calls' = IF Expected(t) THEN Moved(t, "read", draft.revision)
                             ELSE Moved(t, "conflict", draft.revision)
  /\ UNCHANGED <<draft, tab, seen, kept, other, versions, reports>>

(* updateContent is guarded by the revision that was read; a row that      *)
(* appeared since the read makes the insert a unique violation.            *)
\* Mutant: the UPDATE is not guarded by the revision.
MovedOrNot(row) == TRUE
Unmoved(row) == draft.revision = row

Stored(content) ==
  draft' = [revision |-> draft.revision + 1, content |-> content]

SaveWrite(t) ==
  /\ Running(t, "read")
  /\ LET call == Head(calls[t]) IN
     \/ /\ Unmoved(call.row)
        /\ Stored(call.content)
        /\ calls' = Moved(t, "saved", draft.revision + 1)
        /\ kept' = [kept EXCEPT ![t] = call.content]
     \/ /\ ~Unmoved(call.row)
        /\ calls' = Moved(t, IF call.row = NoDraft THEN "failed" ELSE "conflict",
                          call.row)
        /\ UNCHANGED <<draft, kept>>
  /\ UNCHANGED <<tab, seen, other, versions, reports>>

(* The answer reaches the tab, which marks as saved the text it shows now. *)
AnswerSave(t) ==
  /\ \E stage \in {"saved", "conflict", "failed"} : Running(t, stage)
  /\ LET call == Head(calls[t]) IN
     /\ tab' = [tab EXCEPT ![t] =
          CASE call.stage = "saved" ->
                 [@ EXCEPT !.revision = call.row, !.lastSaved = tab[t].content,
                           !.banner = IF tab[t].banner = "conflict" THEN "none"
                                      ELSE tab[t].banner]
            [] call.stage = "conflict" -> [@ EXCEPT !.banner = "conflict"]
            [] call.stage = "failed" -> [@ EXCEPT !.banner = "error"]]
     /\ seen' = IF call.stage = "saved"
                THEN [seen EXCEPT ![t] = @ \cup
                        {[revision |-> call.row, content |-> call.content]}]
                ELSE seen
  /\ calls' = [calls EXCEPT ![t] = Tail(@)]
  /\ UNCHANGED <<draft, kept, other, versions, reports>>

(* The request or its answer is lost.                                      *)
LoseSave(t) ==
  /\ calls[t] # <<>> /\ Head(calls[t]).stage # "read"
  /\ calls' = [calls EXCEPT ![t] = Tail(@)]
  /\ tab' = [tab EXCEPT ![t] = [@ EXCEPT !.banner = "error"]]
  /\ UNCHANGED <<draft, seen, kept, other, versions, reports>>

-----------------------------------------------------------------------------
(* seedDraftFromCandidate, snapshotProseVersion, validateProseVersion.     *)

Asked(t, request) == other' = [other EXCEPT ![t] = request]
Done(t) == Asked(t, [op |-> "none"])

(* A draft that was edited is never seeded over: the web never allows it.  *)
MateriallyEdited == draft.revision > 0 \/ draft.content # Blank

SeedRead(t) ==
  /\ other[t].op = "none"
  /\ draft.revision < MaxRevision
  /\ draft.revision = NoDraft \/ ~MateriallyEdited
  /\ Asked(t, [op |-> "seed", row |-> draft.revision])
  /\ UNCHANGED <<draft, tab, calls, seen, kept, versions, reports>>

SeedWrite(t) ==
  /\ other[t].op = "seed"
  /\ IF Unmoved(other[t].row) THEN Stored(Candidate) ELSE UNCHANGED draft
  /\ Done(t)
  /\ UNCHANGED <<tab, calls, seen, kept, versions, reports>>

LastRevision == IF versions = <<>> THEN -1
                ELSE CHOOSE r \in {versions[v].revision : v \in DOMAIN versions} :
                       \A v \in DOMAIN versions : versions[v].revision =< r

SnapshotRead(t) ==
  /\ other[t].op = "none"
  /\ Len(versions) < MaxVersions
  /\ draft.revision # NoDraft
  /\ Asked(t, [op |-> "snapshot", content |-> draft.content, last |-> LastRevision])
  /\ UNCHANGED <<draft, tab, calls, seen, kept, versions, reports>>

(* Nothing makes (beat, revision) unique: the insert never fails.          *)
SnapshotWrite(t) ==
  /\ other[t].op = "snapshot"
  /\ versions' = Append(versions, [content |-> other[t].content,
                                   revision |-> other[t].last + 1])
  /\ Done(t)
  /\ UNCHANGED <<draft, tab, calls, seen, kept, reports>>

(* A report is written once for a version, its content and the policy;     *)
(* whoever finds one returns it, and the second insert of a race fails.    *)
ValidateRead(t) ==
  /\ other[t].op = "none"
  /\ \E v \in DOMAIN versions \ DOMAIN reports :
       Asked(t, [op |-> "validate", version |-> v])
  /\ UNCHANGED <<draft, tab, calls, seen, kept, versions, reports>>

ValidateWrite(t) ==
  /\ other[t].op = "validate"
  /\ LET v == other[t].version IN
     reports' = IF v \in DOMAIN reports THEN reports
                ELSE [w \in DOMAIN reports \cup {v} |->
                        IF w = v THEN versions[v].content \in Clean
                                 ELSE reports[w]]
  /\ Done(t)
  /\ UNCHANGED <<draft, tab, calls, seen, kept, versions>>

EditorNext(t) ==
  \/ \E text \in Texts : Type(t, text)
  \/ Fire(t) \/ Reload(t)
  \/ SaveRead(t) \/ SaveWrite(t) \/ AnswerSave(t) \/ LoseSave(t)

SeedNext(t) == SeedRead(t) \/ SeedWrite(t)

CheckNext(t) ==
  \/ SnapshotRead(t) \/ SnapshotWrite(t)
  \/ ValidateRead(t) \/ ValidateWrite(t)

DraftNext == \E t \in Tabs : EditorNext(t) \/ SeedNext(t) \/ CheckNext(t)

DraftSpec == DraftInit /\ [][DraftNext]_draftVars

-----------------------------------------------------------------------------
(* A draft is never overwritten by an autosave of a tab that has not seen  *)
(* it: what a save replaces is a row the tab loaded or knows it stored.    *)
(* The row a first save or a seed inserts is excepted: it has revision 0,  *)
(* which is also what an editor opened before any draft sends, so that     *)
(* such a tab does replace it unseen.                                      *)
OverwritesOnlySeen ==
  [][\A t \in Tabs :
       (Running(t, "read") /\ draft'.revision > draft.revision
          /\ calls'[t] # calls[t] /\ draft.revision > 0)
       => draft \in seen[t]]_draftVars

(* An editor at rest that shows no banner ("saved automatically, revision  *)
(* N") shows what the server last stored for it or gave it.                *)
AtRest(t) == tab[t].timer = NoTimer /\ calls[t] = <<>> /\ tab[t].banner = "none"
SavedMeansSaved == \A t \in Tabs : AtRest(t) => tab[t].content = kept[t]
=============================================================================
