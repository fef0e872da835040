----------------------------- MODULE Narrative ------------------------------
(***************************************************************************)
(* What can be read off a story at a place in it: what a character         *)
(* believes (knowledge-policy.ts), what the reader knows of a fact         *)
(* (disclosure-policy.ts), how near a reveal is (reveal-policy.ts); how    *)
(* far its foundation has got (readiness-policy.ts); and whether a         *)
(* proposal still stands on what it was written on (stale-policy.ts).      *)
(*                                                                         *)
(* Events are recorded in any order and read in the order of the story.    *)
(* Positions are <<sequence, chapter, beat>>, beat 0 where the code has    *)
(* none; ids are numbers, in the order of the code's strings.              *)
(***************************************************************************)
EXTENDS Integers, Sequences, FiniteSets, Functions, SequencesExt

CONSTANTS
  Sequences,    \* places an event takes effect at
  Moments,      \* when events are recorded, to the millisecond
  EventIds,
  MaxEvents,    \* bound on the events of a log
  Positions,
  MaxCrumbs,    \* bound on the breadcrumbs of a reveal
  Foundations,  \* what has been decided so far, but for the secret
  Dependencies, \* what a proposal may depend on
  MaxRevisions  \* bound on the changes of a dependency

VARIABLES beliefs, disclosures, foundation, secret, canon, manifest, touched
narrativeVars == <<beliefs, disclosures, foundation, secret, canon, manifest, touched>>

(* What the parsers of the code take; no event has the id 0.               *)
ASSUME NarrativeAssumption ==
  /\ Sequences \subseteq Nat /\ Moments \subseteq Int /\ EventIds \subseteq Nat \ {0}
  /\ Positions \subseteq Nat \X Nat \X Nat

-----------------------------------------------------------------------------
(* Events in the order of the story: where they take effect, then when     *)
(* they were recorded, then by id.                                         *)

\* Mutant: events recorded in the same millisecond stay as they were read.
EventBeforeByTime(e, f) == e.at < f.at \/ (e.at = f.at /\ e.made < f.made)
EventBefore(e, f) ==
  \/ e.at < f.at
  \/ e.at = f.at /\ (e.made < f.made \/ (e.made = f.made /\ e.id < f.id))

(* Array.prototype.sort is stable.                                         *)
UpTo(log, at) == {i \in DOMAIN log : log[i].at =< at}
Ahead(log, j, i) ==
  EventBefore(log[j], log[i]) \/ (j < i /\ ~EventBefore(log[i], log[j]))
InOrder(log, at) ==
  LET place(i) == 1 + Cardinality({j \in UpTo(log, at) : Ahead(log, j, i)})
  IN [k \in 1 .. Cardinality(UpTo(log, at)) |-> log[CHOOSE i \in UpTo(log, at) : place(i) = k]]

Distinct(log) == \A i, j \in DOMAIN log : log[i].id = log[j].id => i = j

Unreadable == [status |-> "refused", by |-> 0]

LevelRank == [unknown |-> 0, suspected |-> 1, believed |-> 2, known |-> 3]
RequiresReason(from, to) ==
  /\ from # to
  /\ from = "disproven" \/ to = "disproven" \/ LevelRank[to] < LevelRank[from]

Believed(r, e) ==
  IF r = Unreadable \/ (RequiresReason(r.status, e.level) /\ ~e.reason) THEN Unreadable
  ELSE [status |-> e.level, by |-> e.id]
FoldBeliefs(log, at) ==
  LET events == InOrder(log, at)
      fold[n \in 0 .. Len(events)] ==
        IF n = 0 THEN [status |-> "unknown", by |-> 0] ELSE Believed(fold[n - 1], events[n])
  IN IF Distinct(log) THEN fold[Len(events)] ELSE Unreadable

(* A disclosure names its level, a retraction the disclosure it takes back *)
(* (retracts > 0).  active is the disclosure that can be taken back.       *)
Disclosed(r, e) ==
  IF r.status = "refused" THEN r
  ELSE IF e.retracts = 0 THEN [status |-> e.level, by |-> e.id, active |-> e.id]
  ELSE IF e.retracts = r.active THEN [status |-> "retracted", by |-> e.id, active |-> 0]
  ELSE [status |-> "refused", by |-> 0, active |-> 0]
FoldDisclosures(log, at) ==
  LET events == InOrder(log, at)
      fold[n \in 0 .. Len(events)] ==
        IF n = 0 THEN [status |-> "unknown", by |-> 0, active |-> 0]
        ELSE Disclosed(fold[n - 1], events[n])
      end == fold[Len(events)]
  IN IF Distinct(log) THEN [status |-> end.status, by |-> end.by] ELSE Unreadable

-----------------------------------------------------------------------------
(* A secret has a truth, a place it is revealed at, and breadcrumbs.       *)

LiesBefore(p, q) ==
  \/ p[1] < q[1]
  \/ p[1] = q[1] /\ (p[2] < q[2] \/ (p[2] = q[2] /\ p[3] < q[3]))

Nowhere == <<>>

(* What readiness asks of a schedule ...                                   *)
\* Mutant: two breadcrumbs may lie at one place.
ScheduleOfPlaces(s) ==
  /\ s.target # Nowhere /\ s.crumbs # <<>>
  /\ \A i \in DOMAIN s.crumbs : LiesBefore(s.crumbs[i], s.target)
ValidBreadcrumbSchedule(s) ==
  /\ s.target # Nowhere /\ s.crumbs # <<>>
  /\ \A i \in DOMAIN s.crumbs :
       /\ LiesBefore(s.crumbs[i], s.target)
       /\ \A j \in DOMAIN s.crumbs \ {i} : s.crumbs[j] # s.crumbs[i]

(* ... and what the reveal policy takes; the id of a crumb is its index.   *)
RevealAccepted(s) ==
  /\ s.target # Nowhere
  /\ \A i \in DOMAIN s.crumbs :
       /\ LiesBefore(s.crumbs[i], s.target)
       /\ \A j \in 1 .. i - 1 : s.crumbs[j] # s.crumbs[i]

DecideReveal(s, here) ==
  LET due == {i \in DOMAIN s.crumbs : s.crumbs[i] = here}
      first == CHOOSE p \in Range(s.crumbs) : \A q \in Range(s.crumbs) : ~LiesBefore(q, p)
  IN [given |-> due,
      status |-> CASE here = s.target -> "reveal_due"
                   [] LiesBefore(s.target, here) -> "revealed"
                   [] due # {} -> "breadcrumb_due"
                   [] s.crumbs # <<>> /\ LiesBefore(here, first) -> "before_breadcrumb"
                   [] OTHER -> "hold"]

-----------------------------------------------------------------------------
(* Readiness.  A foundation says which of its texts are written, who the   *)
(* main character is and what is written of it, and its relationships.     *)

SecretScore(s) ==
  (IF s.truth THEN 4 ELSE 0) + (IF s.target # Nowhere THEN 3 ELSE 0)
    + (IF ValidBreadcrumbSchedule(s) THEN 3 ELSE 0)

Order == <<"core_concept", "main_character", "main_relationship", "conflict",
           "ending_direction", "reader_promise", "character_address", "speech_style",
           "secret_schedule">>
Weight == [core_concept |-> 20, main_character |-> 15, main_relationship |-> 10,
           conflict |-> 15, ending_direction |-> 10, reader_promise |-> 10,
           character_address |-> 5, speech_style |-> 5, secret_schedule |-> 10]

RelationshipComplete(f) ==
  \E r \in f.relationships : r.active /\ r.described /\ r.from # r.to /\ f.main \in {r.from, r.to}

Earned(f, s, key) ==
  LET ofMain == IF f.active THEN f.written \cap {"identity", "goal", "motivation"} ELSE {}
      all(done) == IF done THEN Weight[key] ELSE 0
  IN CASE key = "main_character" -> 5 * Cardinality(ofMain)
       [] key = "main_relationship" -> all(f.active /\ RelationshipComplete(f))
       [] key \in {"character_address", "speech_style"} -> all(f.active /\ key \in f.written)
       [] key = "secret_schedule" -> SecretScore(s)
       [] OTHER -> all(key \in f.written)

Percent(f, s) ==
  LET sum[n \in 0 .. Len(Order)] == IF n = 0 THEN 0 ELSE sum[n - 1] + Earned(f, s, Order[n])
  IN sum[Len(Order)]

(* The first of the keys that lack most; none when nothing is lacking.     *)
Lacks(f, s, key) == Weight[key] - Earned(f, s, key)
Better(best, f, s, key) ==
  IF Lacks(f, s, key) > best.lacks THEN [key |-> key, lacks |-> Lacks(f, s, key)] ELSE best
NextRecommendation(f, s) ==
  LET best[n \in 0 .. Len(Order)] ==
        IF n = 0 THEN [key |-> "none", lacks |-> 0] ELSE Better(best[n - 1], f, s, Order[n])
  IN best[Len(Order)].key

-----------------------------------------------------------------------------
(* A manifest lists the entities something depends on, as they were.       *)

\* Mutant: an entry is told by its revision and content alone.
EntryUndeleted(e) == <<e.revision, e.hash>>
EntryTuple(e) == <<e.revision, e.hash, e.deleted>>

Changed(old, new) ==
  {d \in DOMAIN old \cup DOMAIN new :
     ~(d \in DOMAIN old /\ d \in DOMAIN new /\ EntryTuple(old[d]) = EntryTuple(new[d]))}

(* target says whether the entity to be changed exists, is deleted, is the *)
(* same one, and has the revision expected of it.                          *)
DependencyStatus(old, new, target, relevant) ==
  IF \/ ~target.exists /\ (target.deleted \/ target.same \/ target.matches)
     \/ target.deleted /\ target.matches
     \/ ~(relevant \subseteq DOMAIN old \cup DOMAIN new)
  THEN "refused"
  ELSE IF ~target.exists \/ target.deleted \/ ~target.same \/ ~target.matches THEN "stale"
  ELSE IF Changed(old, new) \cap relevant # {} THEN "needs_revalidation" ELSE "current"

(* What is to be told of an entity, no caller in the repository: it is     *)
(* there, it is deleted, and it is as the manifest has it.                 *)
Applicability(old, new, d) ==
  [exists  |-> d \in DOMAIN new,
   deleted |-> d \in DOMAIN new /\ new[d].deleted,
   same    |-> d \in DOMAIN new,
   matches |-> /\ d \in DOMAIN new /\ ~new[d].deleted
               /\ d \in DOMAIN old /\ old[d].revision = new[d].revision]

-----------------------------------------------------------------------------
NarrativeInit ==
  /\ beliefs = <<>> /\ disclosures = <<>>
  /\ foundation \in Foundations
  /\ secret = [truth |-> FALSE, target |-> Nowhere, crumbs |-> <<>>]
  /\ canon = <<>> /\ manifest = <<>> /\ touched = {}

BelieveEvent(e) ==
  /\ Len(beliefs) < MaxEvents
  /\ beliefs' = Append(beliefs, e)
  /\ UNCHANGED <<disclosures, foundation, secret, canon, manifest, touched>>

DiscloseEvent(e) ==
  /\ Len(disclosures) < MaxEvents
  /\ disclosures' = Append(disclosures, e)
  /\ UNCHANGED <<beliefs, foundation, secret, canon, manifest, touched>>

FoundationUpdate(f) ==
  /\ foundation' = f
  /\ UNCHANGED <<beliefs, disclosures, secret, canon, manifest, touched>>

SecretUpdate ==
  /\ \/ secret' = [secret EXCEPT !.truth = TRUE]
     \/ \E p \in Positions : secret' = [secret EXCEPT !.target = p]
     \/ /\ Len(secret.crumbs) < MaxCrumbs
        /\ \E p \in Positions : secret' = [secret EXCEPT !.crumbs = Append(@, p)]
  /\ UNCHANGED <<beliefs, disclosures, foundation, canon, manifest, touched>>

(* A dependency comes to be, gets a revision, a content, or is deleted.    *)
Touch(d, entry) ==
  /\ canon' = [x \in DOMAIN canon \cup {d} |-> IF x = d THEN entry ELSE canon[x]]
  /\ touched' = touched \cup {d}
  /\ UNCHANGED <<beliefs, disclosures, foundation, secret, manifest>>
DependencyChanges(d) ==
  \/ d \notin DOMAIN canon /\ Touch(d, [revision |-> 0, hash |-> 0, deleted |-> FALSE])
  \/ /\ d \in DOMAIN canon /\ ~canon[d].deleted
     /\ \/ canon[d].revision < MaxRevisions /\ Touch(d, [canon[d] EXCEPT !.revision = @ + 1])
        \/ canon[d].hash < MaxRevisions /\ Touch(d, [canon[d] EXCEPT !.hash = @ + 1])
        \/ Touch(d, [canon[d] EXCEPT !.deleted = TRUE])

(* A proposal is written: the manifest has what it rests on as it is now.  *)
BuildDependencyManifest(ds) ==
  /\ manifest' = Restrict(canon, ds \cap DOMAIN canon) /\ touched' = {}
  /\ UNCHANGED <<beliefs, disclosures, foundation, secret, canon>>

\* Ids are primary keys of the rows.
FreshIds(log) == EventIds \ {e.id : e \in Range(log)}

BeliefsNext ==
  \E id \in FreshIds(beliefs), at \in Sequences, made \in Moments,
     level \in {"suspected", "known", "disproven"}, reason \in BOOLEAN :
    BelieveEvent([id |-> id, at |-> at, made |-> made, level |-> level, reason |-> reason])

DisclosuresNext ==
  \E id \in FreshIds(disclosures), at \in Sequences, made \in Moments,
     retracts \in {0} \cup EventIds :
    DiscloseEvent([id |-> id, at |-> at, made |-> made, retracts |-> retracts,
                   level |-> IF id = 1 THEN "suspected" ELSE "known"])

PlansNext == (\E f \in Foundations : FoundationUpdate(f)) \/ SecretUpdate

DependenciesNext ==
  (\E d \in Dependencies : DependencyChanges(d))
    \/ \E ds \in SUBSET Dependencies : BuildDependencyManifest(ds)

NarrativeNext == BeliefsNext \/ DisclosuresNext \/ PlansNext \/ DependenciesNext
NarrativeSpec == NarrativeInit /\ [][NarrativeNext]_narrativeVars

-----------------------------------------------------------------------------
(* However the events came to be recorded, a reading is of the last event  *)
(* of the story up to there, and is refused for faults of the log only: a  *)
(* belief given up without a reason, a retraction of anything but the      *)
(* disclosure right before it.                                             *)
Place(e) == <<e.at, e.made, e.id>>
LastOf(es) == CHOOSE e \in es : \A f \in es : ~LiesBefore(Place(e), Place(f))
Earlier(es, e) == {f \in es : LiesBefore(Place(f), Place(e))}
LevelOf(es) == IF es = {} THEN "unknown" ELSE LastOf(es).level

ReadingIsOfTheLog ==
  \A at \in Sequences :
    LET bs == {e \in Range(beliefs) : e.at =< at}
        ds == {e \in Range(disclosures) : e.at =< at}
        baseless == \E e \in bs : RequiresReason(LevelOf(Earlier(bs, e)), e.level) /\ ~e.reason
        astray == \E e \in ds : LET before == Earlier(ds, e) IN
          /\ e.retracts # 0
          /\ before = {} \/ LastOf(before).retracts # 0 \/ LastOf(before).id # e.retracts
        reading(es, level) ==
          [status |-> level, by |-> IF es = {} THEN 0 ELSE LastOf(es).id]
    IN /\ FoldBeliefs(beliefs, at) = IF baseless THEN Unreadable ELSE reading(bs, LevelOf(bs))
       /\ FoldDisclosures(disclosures, at) =
            IF astray THEN Unreadable
            ELSE reading(ds, IF ds # {} /\ LastOf(ds).retracts # 0 THEN "retracted"
                             ELSE LevelOf(ds))

(* What readiness counts as a schedule, the reveal policy can follow: each *)
(* breadcrumb is given at its place and nowhere else, and the guidance     *)
(* only moves on, from before the first breadcrumb to after the reveal.  A *)
(* foundation without a recommendation left has such a schedule.           *)
GuidanceRank == [before_breadcrumb |-> 0, breadcrumb_due |-> 1, hold |-> 1, reveal_due |-> 2,
                 revealed |-> 3]
ReadySchedulesReveal ==
  /\ ValidBreadcrumbSchedule(secret) =>
       /\ RevealAccepted(secret)
       /\ \A p \in Positions :
            /\ Range(secret.crumbs) \cap {p} # {} <=>
                 DecideReveal(secret, p).status = "breadcrumb_due"
            /\ Cardinality(DecideReveal(secret, p).given) =< 1
       /\ \A p, q \in Positions : LiesBefore(p, q) =>
            GuidanceRank[DecideReveal(secret, p).status]
              =< GuidanceRank[DecideReveal(secret, q).status]
  /\ NextRecommendation(foundation, secret) = "none" <=> Percent(foundation, secret) = 100
  /\ Percent(foundation, secret) = 100 => ValidBreadcrumbSchedule(secret)

(* A proposal passes as current only if neither what it is to change nor   *)
(* anything relevant it was written on has been touched since - revised,   *)
(* rewritten, deleted or newly made - and it never passes as current or to *)
(* be looked at again once its target is deleted or revised.               *)
StatusKnowsChanges ==
  \A target \in Dependencies, relevant \in SUBSET Dependencies :
    LET told == Applicability(manifest, canon, target)
        status == DependencyStatus(manifest, canon, told, relevant)
        same == target \in DOMAIN manifest /\ ~canon[target].deleted
                  /\ canon[target].revision = manifest[target].revision
        rest == DOMAIN canon \ (DOMAIN manifest \ touched)
    IN status # "refused" =>
         /\ status = "stale" <=> ~same
         /\ status = "current" => relevant \cap rest = {}
         /\ same /\ relevant \cap rest = {} => status = "current"
=============================================================================
