------------------------------- MODULE Canon -------------------------------
(***************************************************************************)
(* The canon of one project: its version, its foundation, the planned      *)
(* entities (outline nodes, characters, facts, reveals) and the change     *)
(* sets that are the only way to change an entity.                         *)
(*                                                                         *)
(* A use case is a chain of transactions: the project's version is read in *)
(* the first, each guard is evaluated in one of its own, and the last one, *)
(* commitCanonicalChangeSet, locks the project row, compares the version   *)
(* with the one read first, applies the operations and bumps the version.  *)
(* The foundation use cases are single transactions that read without a    *)
(* lock and write under the condition of their UPDATE.                     *)
(***************************************************************************)
EXTENDS Integers, Sequences, FiniteSets

CONSTANTS Clients,    \* requests being served at a time
          Outline,    \* outline nodes
          Beats,      \* those whose prose can be accepted
          Cast, Facts, Reveals,
          Parent,     \* what must exist before an entity is created: the
                      \* node above, or the fact that is revealed
          NoEntity,
          Concepts,   \* generated concepts
          Complete,   \* the concepts whose payload makes a foundation ready
          NoConcept, NoProse,
          NoHolder,   \* nobody holds the lock of the project row
          MaxCanon,   \* no change is requested at this canonical version
          MaxFoundation   \* nor a foundation edit at this revision

Entities == Outline \cup Cast \cup Facts \cup Reveals

ASSUME CanonAssumption ==
  /\ Beats \subseteq Outline
  /\ Parent \in [Entities -> Entities \cup {NoEntity}]
  /\ NoEntity \notin Entities /\ NoConcept \notin Concepts
  /\ Complete \subseteq Concepts
  /\ NoHolder \notin Clients
  /\ MaxCanon \in Nat /\ MaxFoundation \in Nat

VARIABLES version,     \* projects.current_canonical_version
          log,         \* the applied change sets, in order
          entity,      \* revision of every entity (Absent: not created) and
                       \* the accepted prose of a beat
          foundation,  \* status, revision, readiness and source concept
          req,         \* the request each client is in
          holder       \* who holds the lock of the project row

canonVars == <<version, log, entity, foundation, req, holder>>

Absent == -1
NoRevision == -1
Idle == [op |-> "idle"]

Exists(e) == entity[e].revision # Absent
Asks(c, op, at) == req[c].op = op /\ req[c].at = at
At(c, step) == req' = [req EXCEPT ![c] = [@ EXCEPT !.at = step]]
Ends(c) == req' = [req EXCEPT ![c] = Idle]
Refused(c) == Ends(c) /\ UNCHANGED <<version, log, entity, foundation, holder>>

CanonInit ==
  /\ version = 0
  /\ log = <<>>
  /\ entity = [e \in Entities |-> [revision |-> Absent, accepted |-> NoProse]]
  /\ foundation = [status |-> "absent", revision |-> 0, ready |-> FALSE,
                   concept |-> NoConcept]
  /\ req = [c \in Clients |-> Idle]
  /\ holder = NoHolder

-----------------------------------------------------------------------------
(* The change set.                                                         *)

(* The project is locked and still on the version the request read first.  *)
\* Mutant: any version that was current once will do.
StillOnOrPast(base) == base =< version
StillOn(base) == version = base

Applied(base, change) ==
  /\ version' = base + 1
  /\ log' = Append(log, [base |-> base, change |-> change])

(* A create inserts a row; an update needs the row and, if the request     *)
(* names one, its revision.                                                *)
Inserts(e) == ~Exists(e)
Updates(e, expected) == Exists(e) /\ expected \in {NoRevision, entity[e].revision}
EditApplies(r) == IF r.create THEN Inserts(r.entity) ELSE Updates(r.entity, r.expected)

-----------------------------------------------------------------------------
(* Editing the plan.                                                       *)

(* The version is read; the form names the revision its page showed, or    *)
(* none.                                                                   *)
Requests(c, e, expected) ==
  /\ req[c] = Idle /\ version < MaxCanon
  /\ expected = NoRevision \/ (Exists(e) /\ expected \in 0..entity[e].revision)
  /\ req' = [req EXCEPT ![c] =
       [op |-> "edit", at |-> "guard", entity |-> e, create |-> ~Exists(e),
        base |-> version, expected |-> expected]]
  /\ UNCHANGED <<version, log, entity, foundation, holder>>

OutlineUpsert(c, e, expected) == e \in Outline /\ Requests(c, e, expected)
CharacterUpsert(c, e, expected) == e \in Cast /\ Requests(c, e, expected)
FactUpsert(c, e, expected) == e \in Facts /\ Requests(c, e, expected)
RevealCreate(c, e) == e \in Reveals /\ ~Exists(e) /\ Requests(c, e, NoRevision)

\* Mutant: an outline is planned under any foundation.
MayCreateUnfounded(e) == Parent[e] # NoEntity => Exists(Parent[e])
MayCreate(e) ==
  /\ e \in Outline => foundation.status = "locked"
  /\ Parent[e] # NoEntity => Exists(Parent[e])
\* Mutant: a beat with accepted prose may be edited.
MayUpdateAccepted(e) == Exists(e)
MayUpdate(e) == entity[e].accepted = NoProse

EditGuard(c) ==
  /\ Asks(c, "edit", "guard")
  /\ \/ /\ IF req[c].create THEN MayCreate(req[c].entity) ELSE MayUpdate(req[c].entity)
        /\ At(c, "commit")
        /\ UNCHANGED <<version, log, entity, foundation, holder>>
     \/ /\ ~ IF req[c].create THEN MayCreate(req[c].entity)
                              ELSE MayUpdate(req[c].entity)
        /\ Refused(c)

EditCommit(c) ==
  /\ Asks(c, "edit", "commit") /\ holder = NoHolder
  /\ LET r == req[c] IN
     \/ /\ StillOn(r.base) /\ EditApplies(r)
        /\ Applied(r.base, r.entity)
        /\ entity' = [entity EXCEPT ![r.entity] =
                        [@ EXCEPT !.revision = entity[r.entity].revision + 1]]
        /\ Ends(c)
        /\ UNCHANGED <<foundation, holder>>
     \/ /\ ~(StillOn(r.base) /\ EditApplies(r))
        /\ Refused(c)

-----------------------------------------------------------------------------
(* The foundation.                                                         *)

Founded == foundation.status # "absent"

Inserted(ready, concept) ==
  foundation' = [status |-> "draft", revision |-> 0, ready |-> ready,
                 concept |-> concept]

(* updateFoundationDraft: refused when locked; without a revision from the *)
(* form, the one just read is expected.                                    *)
DraftRead(c, ready, expected) ==
  /\ req[c] = Idle
  /\ foundation.status # "locked" /\ foundation.revision < MaxFoundation
  /\ expected \in 0..foundation.revision
  /\ req' = [req EXCEPT ![c] =
       [op |-> "draft", at |-> "write", insert |-> ~Founded, ready |-> ready,
        expected |-> expected]]
  /\ UNCHANGED <<version, log, entity, foundation, holder>>

DraftWrite(c) ==
  /\ Asks(c, "draft", "write")
  /\ IF req[c].insert
     THEN IF ~Founded THEN Inserted(req[c].ready, NoConcept) ELSE UNCHANGED foundation
     ELSE IF foundation.revision = req[c].expected
          THEN foundation' = [foundation EXCEPT !.revision = @ + 1,
                                                !.ready = req[c].ready]
          ELSE UNCHANGED foundation
  /\ Ends(c)
  /\ UNCHANGED <<version, log, entity, holder>>

Confirm(c) ==
  /\ req[c] = Idle /\ foundation.status = "draft"
  /\ foundation' = [foundation EXCEPT !.status = "confirmed", !.revision = @ + 1]
  /\ UNCHANGED <<version, log, entity, req, holder>>

(* lockFoundation: the payload that was read must be ready; the UPDATE     *)
(* only asks for the confirmed status.                                     *)
LockRead(c) ==
  /\ req[c] = Idle
  /\ foundation.status = "confirmed" /\ foundation.ready
  /\ req' = [req EXCEPT ![c] = [op |-> "lock", at |-> "write"]]
  /\ UNCHANGED <<version, log, entity, foundation, holder>>

LockWrite(c) ==
  /\ Asks(c, "lock", "write")
  /\ IF foundation.status = "confirmed"
     THEN foundation' = [foundation EXCEPT !.status = "locked", !.revision = @ + 1]
     ELSE UNCHANGED foundation
  /\ Ends(c)
  /\ UNCHANGED <<version, log, entity, holder>>

(* acceptConcept: refused once the foundation is confirmed or locked; a    *)
(* draft of the same concept is left as it is.                             *)
ConceptRead(c, k) ==
  /\ req[c] = Idle /\ version < MaxCanon
  /\ foundation.status \in {"absent", "draft"} /\ foundation.concept # k
  /\ foundation.revision < MaxFoundation
  /\ req' = [req EXCEPT ![c] =
       [op |-> "concept", at |-> "prepare", concept |-> k, base |-> version,
        insert |-> ~Founded,
        expected |-> IF Founded THEN foundation.revision ELSE NoRevision]]
  /\ UNCHANGED <<version, log, entity, foundation, holder>>

(* A transaction of its own makes sure that the row exists.                *)
ConceptPrepare(c) ==
  /\ Asks(c, "concept", "prepare")
  /\ \/ /\ ~req[c].insert
        /\ At(c, "check") /\ UNCHANGED foundation
     \/ /\ req[c].insert /\ ~Founded
        /\ Inserted(req[c].concept \in Complete, req[c].concept)
        /\ At(c, "check")
     \/ /\ req[c].insert /\ Founded
        /\ Ends(c) /\ UNCHANGED foundation
  /\ UNCHANGED <<version, log, entity, holder>>

ConceptCheck(c) ==
  /\ Asks(c, "concept", "check")
  /\ \/ StillOn(req[c].base) /\ At(c, "commit")
     \/ ~StillOn(req[c].base) /\ Ends(c)
  /\ UNCHANGED <<version, log, entity, foundation, holder>>

(* foundation.update: guarded by the revision read at first, by nothing    *)
(* if there was no foundation then.                                        *)
ConceptCommit(c) ==
  /\ Asks(c, "concept", "commit") /\ holder = NoHolder
  /\ LET r == req[c]
         fits == r.expected \in {NoRevision, foundation.revision} IN
     \/ /\ StillOn(r.base) /\ fits
        /\ Applied(r.base, r.concept)
        /\ foundation' = [foundation EXCEPT !.revision = @ + 1,
             !.ready = r.concept \in Complete, !.concept = r.concept]
        /\ Ends(c)
        /\ UNCHANGED <<entity, holder>>
     \/ /\ ~(StillOn(r.base) /\ fits)
        /\ Refused(c)

EditNext(c) ==
  \/ \E e \in Entities :
       \E expected \in {NoRevision} \cup 0..entity[e].revision :
         \/ OutlineUpsert(c, e, expected) \/ CharacterUpsert(c, e, expected)
         \/ FactUpsert(c, e, expected) \/ RevealCreate(c, e)
  \/ EditGuard(c) \/ EditCommit(c)

FoundationNext(c) ==
  \/ \E ready \in BOOLEAN, expected \in 0..foundation.revision :
       DraftRead(c, ready, expected)
  \/ DraftWrite(c) \/ Confirm(c) \/ LockRead(c) \/ LockWrite(c)
  \/ \E k \in Concepts : ConceptRead(c, k)
  \/ ConceptPrepare(c) \/ ConceptCheck(c) \/ ConceptCommit(c)

CanonNext == \E c \in Clients : EditNext(c) \/ FoundationNext(c)
CanonSpec == CanonInit /\ [][CanonNext]_canonVars

-----------------------------------------------------------------------------
(* Every applied change set was requested on the canon it was applied to,  *)
(* and the version counts them.                                            *)
CanonIsSerial ==
  /\ version = Len(log)
  /\ \A i \in DOMAIN log : log[i].base = i - 1

(* What the outline was planned on stays: an outline node exists only      *)
(* under a locked foundation and with its parent, though both are checked  *)
(* transactions before the insert.                                         *)
OutlineRestsOnLock ==
  \A e \in Outline : Exists(e) =>
    /\ foundation.status = "locked"
    /\ Parent[e] # NoEntity => Exists(Parent[e])
=============================================================================
