------------------------- MODULE ManuscriptProofs --------------------------
(***************************************************************************)
(* The story for every number of clients, proposals and packages, and for  *)
(* every plan.                                                             *)
(*                                                                         *)
(* The canon: change sets apply one after another, and an outline is only  *)
(* planned on a locked foundation.  The guard of a create is evaluated     *)
(* transactions before the insert; it stays true because a lock is never   *)
(* undone and no entity is ever removed.                                   *)
(*                                                                         *)
(* The prose: what is accepted was seen, is left alone by edits, and is    *)
(* what gets published.  Guards that are evaluated early hold at the       *)
(* commit because every change of a beat raises its revision, every change *)
(* of the canon its version, and an accepted proposal stays accepted.      *)
(***************************************************************************)
EXTENDS Manuscript, TLAPS

EditRequest ==
  [op : {"edit"}, at : {"guard", "commit"}, entity : Entities, create : BOOLEAN,
   base : Nat, expected : Int]
DraftRequest ==
  [op : {"draft"}, at : {"write"}, insert : BOOLEAN, ready : BOOLEAN, expected : Int]
LockRequest == [op : {"lock"}, at : {"write"}]
ConceptRequest ==
  [op : {"concept"}, at : {"prepare", "check", "commit"}, concept : Concepts, base : Nat,
   insert : BOOLEAN, expected : Int]
PrepareRequest ==
  [op : {"prepare"}, at : {"write"}, proposal : Proposals, beat : Beats, group : Groups,
   revision : Nat, over : Proposals \cup {NoProse}]
AcceptRequest ==
  [op : {"accept"}, at : {"commit"}, proposal : Proposals, base : Nat,
   siblings : SUBSET Proposals]
StaleRequest == [op : {"stale"}, at : {"write"}, proposal : Proposals]
RejectRequest == [op : {"reject"}, at : {"commit"}, proposal : Proposals, last : BOOLEAN]
PublishRequest == [op : {"publish"}, at : {"write"}, package : Packages]
Request ==
  {Idle} \cup EditRequest \cup DraftRequest \cup LockRequest \cup ConceptRequest
  \cup PrepareRequest \cup AcceptRequest \cup StaleRequest \cup RejectRequest
  \cup PublishRequest

Changes == Entities \cup Concepts \cup Proposals
LogTypeOK == version \in Nat /\ log \in Seq([base : Nat, change : Changes])
EntityTypeOK ==
  entity \in [Entities -> [revision : (Nat \cup {Absent}), accepted : Proposals \cup {NoProse}]]
FoundationTypeOK ==
  foundation \in [status : {"absent", "draft", "confirmed", "locked"}, revision : Nat,
                  ready : BOOLEAN, concept : Concepts \cup {NoConcept}]
RequestTypeOK == req \in [Clients -> Request]
CanonTypeOK == LogTypeOK /\ EntityTypeOK /\ FoundationTypeOK /\ RequestTypeOK

Proposal ==
  [status : {"pending", "accepted", "superseded", "stale", "rejected"}, group : Groups,
   beat : Beats, revision : Nat, over : Proposals \cup {NoProse}]
ProposalTypeOK == proposal \in [Proposals -> {NoProposal} \cup Proposal]
PackageTypeOK ==
  /\ package \in [Packages -> [status : {"none", "pending", "accepted"},
                               prose : Proposals \cup {NoProse}]]
  /\ artifacts \subseteq Packages \X Proposals
ProseTypeOK == ProposalTypeOK /\ PackageTypeOK

\* A create of an outline node that passed its guard.
Permitted(e) ==
  /\ foundation.status = "locked"
  /\ Parent[e] # NoEntity => Exists(Parent[e])
GuardsHold ==
  \A c \in Clients :
    Asks(c, "edit", "commit") /\ req[c].create /\ req[c].entity \in Outline
      => Permitted(req[c].entity)

CanonInv == CanonTypeOK /\ CanonIsSerial /\ GuardsHold /\ OutlineRestsOnLock

\* Prose is on a beat that exists, and its proposal is accepted.
AcceptedStands ==
  \A e \in Entities :
    /\ entity[e].revision = Absent => entity[e].accepted = NoProse
    /\ \A p \in Proposals : entity[e].accepted = p => Status(p) = "accepted"

\* An update that passed its guard finds its beat bare, or the canon has moved on.
EditsSpareProse ==
  \A c \in Clients : req[c].op = "edit" =>
    /\ req[c].base =< version
    /\ req[c].at = "commit" /\ ~req[c].create /\ req[c].base = version
         => entity[req[c].entity].accepted = NoProse

\* Whoever named a revision of a beat saw what it had accepted then.
Saw(b, revision, over) ==
  /\ revision =< entity[b].revision
  /\ revision = entity[b].revision => over = entity[b].accepted
ProposalsSaw ==
  /\ \A p \in Proposals : Status(p) # "none" =>
       Saw(proposal[p].beat, proposal[p].revision, proposal[p].over)
  /\ \A c \in Clients : req[c].op = "prepare" =>
       Saw(req[c].beat, req[c].revision, req[c].over)

\* Requests that hold a row, or an id not yet inserted, find it as it was.
RowsAreHeld ==
  \A c \in Clients :
    /\ req[c].op = "prepare" => Status(req[c].proposal) = "none"
    /\ req[c].op = "reject" => Status(req[c].proposal) = "pending"
    /\ \A d \in Clients \ {c} :
         req[c].op \in {"prepare", "reject"} /\ req[d].op = req[c].op
           => req[c].proposal # req[d].proposal

\* A package is of prose that was prepared; of accepted prose, once it is being published.
PackagesStand ==
  /\ \A k \in Packages : package[k].status # "none" =>
       package[k].prose \in Proposals /\ Status(package[k].prose) # "none"
  /\ \A c \in Clients : req[c].op = "publish" =>
       /\ package[req[c].package].status # "none"
       /\ Status(package[req[c].package].prose) = "accepted"
ArtifactsStand ==
  \A a \in artifacts :
    package[a[1]] = [status |-> "accepted", prose |-> a[2]] /\ Status(a[2]) = "accepted"

ProseInv ==
  /\ ProseTypeOK /\ AcceptedStands /\ EditsSpareProse /\ ProposalsSaw
  /\ RowsAreHeld /\ PackagesStand /\ ArtifactsStand
StoryInv == CanonInv /\ ProseInv

-----------------------------------------------------------------------------
\* A request is what its operation says it is.
LEMMA RequestByOp ==
  ASSUME RequestTypeOK, NEW c \in Clients
  PROVE  /\ req[c].op = "edit" => req[c] \in EditRequest
         /\ req[c].op = "draft" => req[c] \in DraftRequest
         /\ req[c].op = "concept" => req[c] \in ConceptRequest
         /\ req[c].op = "prepare" => req[c] \in PrepareRequest
         /\ req[c].op = "accept" => req[c] \in AcceptRequest
         /\ req[c].op = "stale" => req[c] \in StaleRequest
         /\ req[c].op = "reject" => req[c] \in RejectRequest
         /\ req[c].op = "publish" => req[c] \in PublishRequest
  BY DEF RequestTypeOK, Request, Idle, EditRequest, DraftRequest, LockRequest, ConceptRequest,
         PrepareRequest, AcceptRequest, StaleRequest, RejectRequest, PublishRequest

\* A request that ends, or moves to its next transaction, is still a request.
LEMMA EndsKeepsType ==
  ASSUME RequestTypeOK, NEW c \in Clients, Ends(c) PROVE RequestTypeOK'
  BY DEF Ends, RequestTypeOK, Request

LEMMA AtKeepsType ==
  ASSUME RequestTypeOK, NEW c \in Clients, NEW step, At(c, step),
         \/ req[c].op = "edit" /\ step = "commit"
         \/ req[c].op = "concept" /\ step \in {"check", "commit"}
  PROVE  RequestTypeOK'
<1>1. [req[c] EXCEPT !.at = step] \in Request
  <2>1. CASE req[c].op = "edit" /\ step = "commit"
    BY <2>1, RequestByOp DEF Request, EditRequest
  <2>2. CASE req[c].op = "concept" /\ step \in {"check", "commit"}
    BY <2>2, RequestByOp DEF Request, ConceptRequest
  <2> QED BY <2>1, <2>2
<1> QED BY <1>1 DEF At, RequestTypeOK

\* The status of a foundation that is there moves on with its revision.
LEMMA FoundationSteps ==
  ASSUME FoundationTypeOK, NEW status \in {"confirmed", "locked"},
         foundation' = [foundation EXCEPT !.status = status,
                                          !.revision = foundation.revision + 1]
  PROVE  FoundationTypeOK'
<1>1. foundation' = [status |-> status, revision |-> foundation.revision + 1,
                     ready |-> foundation.ready, concept |-> foundation.concept]
  BY DEF FoundationTypeOK
<1> QED BY <1>1 DEF FoundationTypeOK

\* A change set applied on the current version keeps the log serial.
LEMMA AppliedIsSerial ==
  ASSUME LogTypeOK, CanonIsSerial, NEW change \in Changes,
         NEW base, StillOn(base), Applied(base, change)
  PROVE  LogTypeOK' /\ CanonIsSerial'
<1> DEFINE row == [base |-> base, change |-> change]
<1>1. base = version /\ base \in Nat /\ log' = Append(log, row) /\ version' = base + 1
  BY DEF StillOn, Applied, LogTypeOK
<1>2. row \in [base : Nat, change : Changes]
  BY <1>1
<1>3. LogTypeOK'
  BY <1>1, <1>2 DEF LogTypeOK
<1>4. /\ Len(log') = Len(log) + 1
      /\ \A i \in 1..Len(log) : log'[i] = log[i]
      /\ log'[Len(log) + 1] = row
  BY <1>1, <1>2 DEF LogTypeOK
<1>5. version' = Len(log')
  BY <1>1, <1>4 DEF CanonIsSerial
<1>6. ASSUME NEW i \in DOMAIN log' PROVE log'[i].base = i - 1
  <2>1. i \in 1..(Len(log) + 1) /\ Len(log) \in Nat
    BY <1>3, <1>4 DEF LogTypeOK
  <2>2. CASE i \in 1..Len(log)
    BY <2>2, <1>4 DEF CanonIsSerial, LogTypeOK
  <2>3. CASE i = Len(log) + 1
    BY <2>1, <2>3, <1>1, <1>4 DEF CanonIsSerial
  <2> QED BY <2>1, <2>2, <2>3
<1> QED BY <1>3, <1>5, <1>6 DEF CanonIsSerial

-----------------------------------------------------------------------------
\* Editing keeps the types and the log; an entity changes only in its commit.
LEMMA EditTyped ==
  ASSUME CanonTypeOK, CanonIsSerial, NEW c \in Clients, EditNext(c)
  PROVE  CanonTypeOK' /\ CanonIsSerial'
<1> USE DEF CanonTypeOK
<1>1. ASSUME NEW e \in Entities, NEW expected \in {NoRevision} \cup 0..entity[e].revision,
             Requests(c, e, expected)
      PROVE  CanonTypeOK' /\ CanonIsSerial'
  <2>1. [op |-> "edit", at |-> "guard", entity |-> e, create |-> ~Exists(e),
         base |-> version, expected |-> expected] \in Request
    <3>1. expected \in Int
      BY DEF NoRevision
    <3> QED BY <3>1 DEF Request, EditRequest, LogTypeOK
  <2>2. RequestTypeOK'
    BY <1>1, <2>1 DEF Requests, RequestTypeOK
  <2> QED BY <1>1, <2>2 DEF Requests, LogTypeOK, EntityTypeOK, FoundationTypeOK, CanonIsSerial
<1>2. CASE EditGuard(c)
  <2>1. UNCHANGED <<version, log, entity, foundation>>
    BY <1>2 DEF EditGuard, Refused
  <2>2. RequestTypeOK'
    BY <1>2, EndsKeepsType, AtKeepsType DEF EditGuard, Refused, Asks
  <2> QED BY <2>1, <2>2 DEF LogTypeOK, EntityTypeOK, FoundationTypeOK, CanonIsSerial
<1>3. CASE EditCommit(c)
  <2>1. req[c] \in EditRequest
    BY <1>3, RequestByOp DEF EditCommit, Asks
  <2>2. RequestTypeOK' /\ UNCHANGED foundation
    BY <1>3, EndsKeepsType DEF EditCommit, Refused
  <2>3. CASE Refused(c)
    BY <2>2, <2>3 DEF Refused, LogTypeOK, EntityTypeOK, FoundationTypeOK, CanonIsSerial
  <2>4. CASE /\ StillOn(req[c].base) /\ Applied(req[c].base, req[c].entity)
             /\ entity' = [entity EXCEPT ![req[c].entity] =
                             [@ EXCEPT !.revision = entity[req[c].entity].revision + 1]]
    <3>1. LogTypeOK' /\ CanonIsSerial'
      BY <2>1, <2>4, AppliedIsSerial DEF EditRequest, Changes
    <3>2. EntityTypeOK'
      BY <2>1, <2>4 DEF EntityTypeOK, EditRequest, Absent
    <3> QED BY <2>2, <3>1, <3>2 DEF FoundationTypeOK
  <2> QED BY <1>3, <2>3, <2>4 DEF EditCommit
<1> QED BY <1>1, <1>2, <1>3
        DEF EditNext, OutlineUpsert, CharacterUpsert, FactUpsert, RevealCreate, NoRevision

\* The foundation use cases keep the types, the log and every entity.
LEMMA FoundationTyped ==
  ASSUME CanonTypeOK, CanonIsSerial, NEW c \in Clients, FoundationNext(c)
  PROVE  CanonTypeOK' /\ CanonIsSerial' /\ entity' = entity
<1> USE DEF CanonTypeOK
<1>1. entity' = entity
  BY DEF FoundationNext, DraftRead, DraftWrite, Confirm, LockRead, LockWrite, ConceptRead,
         ConceptPrepare, ConceptCheck, ConceptCommit, Refused
<1>2. ASSUME NEW ready \in BOOLEAN, NEW expected \in 0..foundation.revision,
             DraftRead(c, ready, expected)
      PROVE  CanonTypeOK' /\ CanonIsSerial'
  <2>1. [op |-> "draft", at |-> "write", insert |-> ~Founded, ready |-> ready,
         expected |-> expected] \in Request
    BY DEF Request, DraftRequest
  <2>2. RequestTypeOK'
    BY <1>2, <2>1 DEF DraftRead, RequestTypeOK
  <2> QED BY <1>2, <2>2 DEF DraftRead, LogTypeOK, EntityTypeOK, FoundationTypeOK, CanonIsSerial
<1>3. CASE DraftWrite(c)
  <2>1. req[c] \in DraftRequest
    BY <1>3, RequestByOp DEF DraftWrite, Asks
  <2>2. FoundationTypeOK'
    <3>1. CASE Inserted(req[c].ready, NoConcept)
      BY <2>1, <3>1 DEF Inserted, FoundationTypeOK, DraftRequest
    <3>2. CASE foundation' = [foundation EXCEPT !.revision = foundation.revision + 1,
                                                !.ready = req[c].ready]
      <4>1. foundation' = [status |-> foundation.status, revision |-> foundation.revision + 1,
                           ready |-> req[c].ready, concept |-> foundation.concept]
        BY <3>2 DEF FoundationTypeOK
      <4> QED BY <2>1, <4>1 DEF FoundationTypeOK, DraftRequest
    <3>3. CASE UNCHANGED foundation
      BY <3>3 DEF FoundationTypeOK
    <3> QED BY <1>3, <3>1, <3>2, <3>3 DEF DraftWrite
  <2>3. RequestTypeOK'
    BY <1>3, EndsKeepsType DEF DraftWrite
  <2> QED BY <1>3, <2>2, <2>3 DEF DraftWrite, LogTypeOK, EntityTypeOK, CanonIsSerial
<1>4. CASE Confirm(c)
  <2>1. FoundationTypeOK'
    BY <1>4, FoundationSteps DEF Confirm
  <2> QED BY <1>4, <2>1 DEF Confirm, LogTypeOK, EntityTypeOK, RequestTypeOK, CanonIsSerial
<1>5. CASE LockRead(c)
  <2>1. RequestTypeOK'
    BY <1>5 DEF LockRead, RequestTypeOK, Request, LockRequest
  <2> QED BY <1>5, <2>1 DEF LockRead, LogTypeOK, EntityTypeOK, FoundationTypeOK, CanonIsSerial
<1>6. CASE LockWrite(c)
  <2>1. FoundationTypeOK'
    BY <1>6, FoundationSteps DEF LockWrite, FoundationTypeOK
  <2>2. RequestTypeOK'
    BY <1>6, EndsKeepsType DEF LockWrite
  <2> QED BY <1>6, <2>1, <2>2 DEF LockWrite, LogTypeOK, EntityTypeOK, CanonIsSerial
<1>7. ASSUME NEW k \in Concepts, ConceptRead(c, k) PROVE CanonTypeOK' /\ CanonIsSerial'
  <2>1. [op |-> "concept", at |-> "prepare", concept |-> k, base |-> version,
         insert |-> ~Founded,
         expected |-> IF Founded THEN foundation.revision ELSE NoRevision] \in Request
    BY DEF Request, ConceptRequest, LogTypeOK, FoundationTypeOK, NoRevision
  <2>2. RequestTypeOK'
    BY <1>7, <2>1 DEF ConceptRead, RequestTypeOK
  <2> QED BY <1>7, <2>2 DEF ConceptRead, LogTypeOK, EntityTypeOK, FoundationTypeOK, CanonIsSerial
<1>8. CASE ConceptPrepare(c)
  <2>1. req[c] \in ConceptRequest
    BY <1>8, RequestByOp DEF ConceptPrepare, Asks
  <2>2. FoundationTypeOK'
    <3>1. CASE Inserted(req[c].concept \in Complete, req[c].concept)
      BY <2>1, <3>1 DEF Inserted, FoundationTypeOK, ConceptRequest
    <3>2. CASE UNCHANGED foundation
      BY <3>2 DEF FoundationTypeOK
    <3> QED BY <1>8, <3>1, <3>2 DEF ConceptPrepare
  <2>3. RequestTypeOK'
    BY <1>8, EndsKeepsType, AtKeepsType DEF ConceptPrepare, Asks
  <2> QED BY <1>8, <2>2, <2>3 DEF ConceptPrepare, LogTypeOK, EntityTypeOK, CanonIsSerial
<1>9. CASE ConceptCheck(c)
  <2>1. RequestTypeOK'
    BY <1>9, EndsKeepsType, AtKeepsType DEF ConceptCheck, Asks
  <2> QED BY <1>9, <2>1
          DEF ConceptCheck, LogTypeOK, EntityTypeOK, FoundationTypeOK, CanonIsSerial
<1>10. CASE ConceptCommit(c)
  <2>1. req[c] \in ConceptRequest
    BY <1>10, RequestByOp DEF ConceptCommit, Asks
  <2>2. RequestTypeOK'
    BY <1>10, EndsKeepsType DEF ConceptCommit, Refused
  <2>3. CASE Refused(c)
    BY <2>2, <2>3 DEF Refused, LogTypeOK, EntityTypeOK, FoundationTypeOK, CanonIsSerial
  <2>4. CASE /\ StillOn(req[c].base) /\ Applied(req[c].base, req[c].concept)
             /\ foundation' = [foundation EXCEPT !.revision = @ + 1,
                  !.ready = req[c].concept \in Complete, !.concept = req[c].concept]
    <3>1. LogTypeOK' /\ CanonIsSerial'
      BY <2>1, <2>4, AppliedIsSerial DEF ConceptRequest, Changes
    <3>2. FoundationTypeOK'
      <4>1. req[c].concept \in Concepts
        BY <2>1 DEF ConceptRequest
      <4>2. foundation' = [status |-> foundation.status, revision |-> foundation.revision + 1,
                           ready |-> foundation'.ready, concept |-> req[c].concept]
        BY <2>4 DEF FoundationTypeOK
      <4>4. foundation'.ready = (req[c].concept \in Complete)
        BY <2>4 DEF FoundationTypeOK
      <4>5. foundation'.ready \in BOOLEAN
        BY <4>4
      <4> QED BY <4>1, <4>2, <4>5 DEF FoundationTypeOK
    <3> QED BY <1>1, <2>2, <3>1, <3>2 DEF EntityTypeOK
  <2> QED BY <1>10, <2>3, <2>4 DEF ConceptCommit
<1> QED BY <1>1, <1>2, <1>3, <1>4, <1>5, <1>6, <1>7, <1>8, <1>9, <1>10 DEF FoundationNext

-----------------------------------------------------------------------------
\* What a permission rests on is never taken back.
Lasting ==
  /\ foundation.status = "locked" => foundation'.status = "locked"
  /\ \A e \in Entities : Exists(e) => Exists(e)'

LEMMA EditLasts ==
  ASSUME CanonTypeOK, NEW c \in Clients, EditNext(c)
  PROVE  /\ Lasting
         /\ \A e \in Entities : Exists(e)' =>
              \/ Exists(e)
              \/ Asks(c, "edit", "commit") /\ req[c].create /\ req[c].entity = e
<1>1. foundation' = foundation
  BY DEF EditNext, OutlineUpsert, CharacterUpsert, FactUpsert, RevealCreate, Requests,
         EditGuard, EditCommit, Refused
<1>2. CASE entity' = entity
  BY <1>1, <1>2 DEF Lasting, Exists
<1>3. CASE /\ Asks(c, "edit", "commit") /\ EditApplies(req[c])
           /\ entity' = [entity EXCEPT ![req[c].entity] =
                           [@ EXCEPT !.revision = entity[req[c].entity].revision + 1]]
  <2>1. req[c] \in EditRequest
    BY <1>3, RequestByOp DEF Asks, CanonTypeOK
  <2>2. \A e \in Entities : /\ e # req[c].entity => entity'[e] = entity[e]
                            /\ e = req[c].entity => Exists(e)'
    BY <1>3, <2>1 DEF CanonTypeOK, EntityTypeOK, EditRequest, Exists, Absent
  <2>3. ~req[c].create => Exists(req[c].entity)
    BY <1>3 DEF EditApplies, Updates
  <2> QED BY <1>1, <1>3, <2>1, <2>2, <2>3 DEF Lasting, Exists
<1> QED BY <1>2, <1>3
        DEF EditNext, OutlineUpsert, CharacterUpsert, FactUpsert, RevealCreate, Requests,
            EditGuard, EditCommit, Refused

LEMMA FoundationLasts ==
  ASSUME CanonTypeOK, CanonIsSerial, NEW c \in Clients, FoundationNext(c)
  PROVE  Lasting
<1>1. entity' = entity
  BY FoundationTyped
<1>2. foundation.status = "locked" => foundation'.status = "locked"
  BY DEF FoundationNext, DraftRead, DraftWrite, Confirm, LockRead, LockWrite, ConceptRead,
         ConceptPrepare, ConceptCheck, ConceptCommit, Refused, Inserted, Founded,
         CanonTypeOK, FoundationTypeOK
<1> QED BY <1>1, <1>2 DEF Lasting, Exists

\* A permission lasts.
LEMMA PermittedLasts ==
  ASSUME CanonAssumption, Lasting, NEW e \in Outline, Permitted(e)
  PROVE  Permitted(e)'
<1>1. Parent[e] # NoEntity => Parent[e] \in Entities
  BY DEF CanonAssumption, Entities
<1> QED BY <1>1 DEF Lasting, Permitted

\* Nothing but its guard makes a create ready to commit.
LEMMA GuardsStay ==
  ASSUME CanonTypeOK, GuardsHold, Lasting, CanonAssumption,
         NEW c \in Clients, EditNext(c) \/ FoundationNext(c)
  PROVE  GuardsHold'
<1> DEFINE Ready(d) == Asks(d, "edit", "commit") /\ req[d].create /\ req[d].entity \in Outline
<1> SUFFICES ASSUME NEW d \in Clients, Ready(d)' PROVE Permitted(req[d].entity)'
  BY DEF GuardsHold
<1>1. CASE req'[d] = req[d]
  <2>1. Permitted(req[d].entity) /\ req[d].entity \in Outline
    BY <1>1 DEF GuardsHold, Asks
  <2>2. PICK e \in Outline : e = req[d].entity
    BY <2>1
  <2>3. Permitted(e)'
    BY <2>1, <2>2, PermittedLasts
  <2> QED BY <1>1, <2>2, <2>3
<1>2. CASE req'[d] # req[d]
  <2>1. CASE \/ \E e \in Entities, expected \in Int : Requests(c, e, expected)
             \/ \E ready, expected : DraftRead(c, ready, expected)
             \/ LockRead(c) \/ \E k : ConceptRead(c, k)
    <3>1. req'[d].op # "edit" \/ req'[d].at = "guard"
      BY <1>2, <2>1 DEF Requests, DraftRead, LockRead, ConceptRead, CanonTypeOK, RequestTypeOK
    <3> QED BY <3>1 DEF Asks
  <2>2. CASE Ends(c)
    BY <1>2, <2>2 DEF Ends, Idle, Asks, CanonTypeOK, RequestTypeOK
  <2>3. CASE EditGuard(c) /\ At(c, "commit")
    <3>1. /\ d = c /\ req[c] \in EditRequest /\ req'[c] = [req[c] EXCEPT !.at = "commit"]
          /\ UNCHANGED <<entity, foundation>>
      BY <1>2, <2>3, RequestByOp
         DEF EditGuard, Asks, At, Refused, CanonTypeOK, RequestTypeOK
    <3>2. req'[c].entity = req[c].entity /\ req'[c].create = req[c].create
      BY <3>1 DEF EditRequest
    <3>3. MayCreate(req[c].entity) /\ req[c].entity \in Outline
      <4>1. req'[d].op = "edit" /\ req'[d].create /\ req'[d].entity \in Outline
        BY DEF Asks
      <4>2. ~Ends(c)
        BY <3>1, <4>1 DEF Ends, Idle, CanonTypeOK, RequestTypeOK
      <4>3. req[c].create /\ req[c].entity \in Outline
        BY <3>1, <3>2, <4>1
      <4> QED BY <2>3, <4>2, <4>3 DEF EditGuard, Refused
    <3> QED BY <3>1, <3>2, <3>3 DEF MayCreate, Permitted, Exists
  <2>4. CASE Asks(c, "concept", req[c].at) /\ \E step : At(c, step)
    <3>1. req[c] \in ConceptRequest
      BY <2>4, RequestByOp DEF Asks, CanonTypeOK
    <3>2. d = c /\ req'[c].op = "concept"
      BY <1>2, <2>4, <3>1 DEF At, CanonTypeOK, RequestTypeOK, ConceptRequest
    <3> QED BY <3>2 DEF Asks
  <2>5. CASE req' = req
    BY <1>2, <2>5
  <2>6. CASE EditNext(c)
    BY <2>1, <2>2, <2>3, <2>6 DEF EditNext, OutlineUpsert, CharacterUpsert, FactUpsert,
       RevealCreate, EditGuard, EditCommit, Refused, NoRevision
  <2>7. CASE FoundationNext(c)
    BY <2>1, <2>2, <2>4, <2>5, <2>7 DEF FoundationNext, DraftWrite, Confirm, LockWrite,
       ConceptPrepare, ConceptCheck, ConceptCommit, Refused, Asks
  <2> QED BY <2>6, <2>7
<1> QED BY <1>1, <1>2

\* The outline that exists, and a node that is created now, rest on what lasts.
LEMMA OutlineStays ==
  ASSUME CanonAssumption, CanonInv, NEW c \in Clients, EditNext(c) \/ FoundationNext(c), Lasting
  PROVE  OutlineRestsOnLock'
<1> SUFFICES ASSUME NEW e \in Outline, Exists(e)' PROVE Permitted(e)'
  BY DEF OutlineRestsOnLock, Permitted
<1>1. e \in Entities
  BY DEF Entities
<1>2. CASE Exists(e)
  BY <1>2, PermittedLasts DEF CanonInv, OutlineRestsOnLock, Permitted
<1>3. CASE ~Exists(e)
  <2>1. EditNext(c)
    BY <1>3, FoundationTyped DEF CanonInv, Exists
  <2>2. Asks(c, "edit", "commit") /\ req[c].create /\ req[c].entity = e
    BY <1>1, <1>3, <2>1, EditLasts DEF CanonInv
  <2> QED BY <2>2, PermittedLasts DEF CanonInv, GuardsHold
<1> QED BY <1>2, <1>3

-----------------------------------------------------------------------------
\* The rows of the story that have their shape have it in every part.
LEMMA ProposalShape ==
  ASSUME ProposalTypeOK, NEW p \in Proposals, Status(p) # "none"
  PROVE  /\ proposal[p] \in Proposal
         /\ proposal[p].beat \in Beats /\ proposal[p].beat \in Entities
         /\ proposal[p].revision \in Nat
<1>1. proposal[p] \in Proposal
  BY DEF ProposalTypeOK, Status, NoProposal
<1> QED BY <1>1, CanonAssumption DEF Proposal, CanonAssumption, Entities

\* A proposal that is marked keeps all but its status.
LEMMA MarkedShape ==
  ASSUME NEW row \in Proposal,
         NEW status \in {"accepted", "superseded", "stale", "rejected"}
  PROVE  /\ [row EXCEPT !.status = status] \in Proposal
         /\ [row EXCEPT !.status = status].status = status
         /\ [row EXCEPT !.status = status].beat = row.beat
         /\ [row EXCEPT !.status = status].revision = row.revision
         /\ [row EXCEPT !.status = status].over = row.over
  BY DEF Proposal

\* What a step may do to proposals: insert one, or mark a pending one.
ProposalMoves(p) ==
  \/ proposal'[p] = proposal[p]
  \/ Status(p) = "none" /\ proposal'[p] \in Proposal /\ proposal'[p].status = "pending"
  \/ /\ Status(p) = "pending" /\ proposal'[p] \in Proposal
     /\ proposal'[p].status # "pending"
     /\ proposal'[p].beat = proposal[p].beat
     /\ proposal'[p].revision = proposal[p].revision
     /\ proposal'[p].over = proposal[p].over
ProposalsMove ==
  proposal' = [p \in Proposals |-> proposal'[p]] /\ \A p \in Proposals : ProposalMoves(p)

\* And to entities: raise the revision, with or without other prose.
EntityMoves(e) ==
  entity'[e] = entity[e] \/ entity'[e].revision = entity[e].revision + 1
EntitiesMove == \A e \in Entities : EntityMoves(e)

\* Only the request of the acting client changes.
OnlyActs(c) == \A d \in Clients \ {c} : req'[d] = req[d]

LEMMA MovesTyped ==
  ASSUME ProposalTypeOK, ProposalsMove
  PROVE  /\ ProposalTypeOK'
         /\ \A p \in Proposals : Status(p) = "accepted" => Status(p)' = "accepted"
         /\ \A p \in Proposals : Status(p) # "none" => Status(p)' # "none"
<1>1. ASSUME NEW p \in Proposals PROVE proposal'[p] \in {NoProposal} \cup Proposal
  BY <1>1 DEF ProposalTypeOK, ProposalsMove, ProposalMoves
<1>2. ProposalTypeOK'
  BY <1>1 DEF ProposalTypeOK, ProposalsMove
<1>3. ASSUME NEW p \in Proposals, Status(p) = "accepted" PROVE Status(p)' = "accepted"
  BY <1>3 DEF ProposalsMove, ProposalMoves, Status
<1>4. ASSUME NEW p \in Proposals, Status(p) # "none" PROVE Status(p)' # "none"
  <2>1. proposal'[p] \in Proposal => Status(p)' # "none"
    BY DEF Proposal, Status
  <2> QED BY <1>4, <2>1 DEF ProposalsMove, ProposalMoves, Status
<1> QED BY <1>2, <1>3, <1>4

\* What was seen of a beat is not unseen: its revision only rises.
LEMMA SawLasts ==
  ASSUME EntityTypeOK, EntitiesMove, NEW b \in Entities, NEW revision \in Nat,
         NEW over, Saw(b, revision, over)
  PROVE  Saw(b, revision, over)'
<1>1. entity[b].revision \in Int
  BY DEF EntityTypeOK, Absent
<1> QED BY <1>1 DEF EntitiesMove, EntityMoves, Saw

-----------------------------------------------------------------------------
\* The transactions of the prose, one lemma each: the canon keeps its types, proposals
\* and entities move as they may, and the request of the client is the one it should be.
Step(c) ==
  /\ CanonTypeOK' /\ CanonIsSerial' /\ Lasting
  /\ PackageTypeOK' /\ ProposalsMove /\ EntitiesMove
  /\ OnlyActs(c) /\ version =< version'
  /\ entity' = entity \/ version' = version + 1

Reads(c) ==
  UNCHANGED <<version, log, entity, foundation, proposal, package, artifacts>>

LEMMA ReadSteps ==
  ASSUME CanonTypeOK, CanonIsSerial, ProseTypeOK, NEW c \in Clients,
         NEW r \in Request, req' = [req EXCEPT ![c] = r], Reads(c)
  PROVE  Step(c) /\ req'[c] = r
<1>1. RequestTypeOK' /\ OnlyActs(c) /\ req'[c] = r
  BY DEF CanonTypeOK, RequestTypeOK, OnlyActs
<1>2. CanonTypeOK' /\ CanonIsSerial'
  BY <1>1 DEF Reads, CanonTypeOK, LogTypeOK, EntityTypeOK, FoundationTypeOK, CanonIsSerial
<1>3. PackageTypeOK' /\ ProposalsMove /\ EntitiesMove /\ Lasting
  BY DEF Reads, ProseTypeOK, ProposalTypeOK, PackageTypeOK, ProposalsMove, ProposalMoves,
         EntitiesMove, EntityMoves, Lasting, Exists
<1>4. version =< version' /\ entity' = entity
  BY DEF Reads, CanonTypeOK, LogTypeOK
<1> QED BY <1>1, <1>2, <1>3, <1>4 DEF Step

\* What a transaction must see to itself: prose it puts on a beat is of an accepted
\* proposal, a proposal it inserts was made over what its beat has, and no other request
\* holds a proposal it changes.
Respects(c) ==
  /\ \A e \in Entities : entity'[e].accepted # entity[e].accepted =>
       \E p \in Proposals : entity'[e].accepted = p /\ Status(p)' = "accepted"
  /\ \A p \in Proposals : proposal'[p] # proposal[p] =>
       /\ Status(p) = "none" =>
            Saw(proposal[p].beat, proposal[p].revision, proposal[p].over)'
       /\ \A d \in Clients \ {c} : req[d].op \in {"prepare", "reject"} => req[d].proposal # p

\* And what the request it leaves behind may assume.
Joins(c) ==
  c \in Clients =>
    /\ req'[c].op = "edit" =>
         /\ req'[c].base =< version'
         /\ req'[c].at = "commit" /\ ~req'[c].create /\ req'[c].base = version'
              => entity'[req'[c].entity].accepted = NoProse
    /\ req'[c].op = "prepare" =>
         /\ Saw(req[c].beat, req[c].revision, req[c].over)'
         /\ Status(req[c].proposal)' = "none"
         /\ \A d \in Clients \ {c} : req[d].op = "prepare" => req[d].proposal # req'[c].proposal
    /\ req'[c].op = "reject" =>
         /\ Status(req[c].proposal)' = "pending"
         /\ \A d \in Clients \ {c} : req[d].op = "reject" => req[d].proposal # req'[c].proposal
    /\ req'[c].op = "publish" =>
         /\ package'[req'[c].package].status # "none"
         /\ Status(package[req[c].package].prose)' = "accepted"

\* A package is received, and accepted, once, and keeps its prose.
PackageMoves(k) ==
  \/ package'[k] = package[k]
  \/ /\ package[k].status = "none" /\ package'[k].status = "pending"
     /\ package'[k].prose \in Proposals /\ Status(package[k].prose)' # "none"
  \/ /\ package[k].status = "pending" /\ package'[k].status = "accepted"
     /\ package'[k].prose = package[k].prose

-----------------------------------------------------------------------------
\* The parts of the invariant, under any step that does its duties.
LEMMA AcceptedStay ==
  ASSUME CanonTypeOK, ProposalTypeOK, AcceptedStands, NEW c, Step(c), Respects(c)
  PROVE  AcceptedStands'
<1> SUFFICES ASSUME NEW e \in Entities
             PROVE  /\ entity'[e].revision = Absent => entity'[e].accepted = NoProse
                    /\ \A p \in Proposals : entity'[e].accepted = p => Status(p)' = "accepted"
  BY DEF AcceptedStands
<1>1. entity'[e].revision = Absent => entity'[e].accepted = NoProse
  <2>1. entity'[e].revision = Absent => entity'[e] = entity[e]
    BY DEF CanonTypeOK, EntityTypeOK, Absent, Step, EntitiesMove, EntityMoves
  <2> QED BY <2>1 DEF AcceptedStands
<1>2. ASSUME NEW p \in Proposals, entity'[e].accepted = p PROVE Status(p)' = "accepted"
  <2>1. CASE entity'[e].accepted = entity[e].accepted
    BY <1>2, <2>1, MovesTyped DEF AcceptedStands, Step
  <2>2. CASE entity'[e].accepted # entity[e].accepted
    BY <1>2, <2>2 DEF Respects
  <2> QED BY <2>1, <2>2
<1> QED BY <1>1, <1>2

LEMMA EditsStay ==
  ASSUME CanonTypeOK, EditsSpareProse, NEW c, Step(c), Joins(c)
  PROVE  EditsSpareProse'
<1> SUFFICES ASSUME NEW d \in Clients, req'[d].op = "edit"
             PROVE  /\ req'[d].base =< version'
                    /\ req'[d].at = "commit" /\ ~req'[d].create /\ req'[d].base = version'
                         => entity'[req'[d].entity].accepted = NoProse
  BY DEF EditsSpareProse
<1>1. CASE d = c
  BY <1>1 DEF Joins
<1>2. CASE d # c
  <2>1. req'[d] = req[d]
    BY <1>2 DEF Step, OnlyActs
  <2>2. req[d].base \in Nat /\ version \in Nat /\ version' \in Nat /\ version =< version'
    BY <2>1, RequestByOp DEF CanonTypeOK, LogTypeOK, EditRequest, Step
  <2>3. req[d].base =< version
    BY <2>1 DEF EditsSpareProse
  <2>4. req[d].base = version' => req[d].base = version /\ entity' = entity
    BY <2>2, <2>3 DEF Step
  <2> QED BY <2>1, <2>2, <2>3, <2>4 DEF EditsSpareProse
<1> QED BY <1>1, <1>2

LEMMA SawStays ==
  ASSUME CanonAssumption, CanonTypeOK, ProposalTypeOK, ProposalsSaw,
         NEW c, Step(c), Respects(c), Joins(c)
  PROVE  ProposalsSaw'
<1>1. ASSUME NEW p \in Proposals, Status(p)' # "none"
      PROVE  Saw(proposal[p].beat, proposal[p].revision, proposal[p].over)'
  <2>1. CASE Status(p) = "none"
    BY <1>1, <2>1 DEF Respects, Status
  <2>2. CASE Status(p) # "none"
    <3>1. PICK b, revision, over : b = proposal[p].beat /\ revision = proposal[p].revision
                                   /\ over = proposal[p].over
      OBVIOUS
    <3>2. b \in Entities /\ revision \in Nat /\ Saw(b, revision, over)
      BY <2>2, <3>1, ProposalShape DEF ProposalsSaw
    <3>3. Saw(b, revision, over)'
      BY <3>2, SawLasts DEF CanonTypeOK, Step
    <3>4. proposal'[p].beat = b /\ proposal'[p].revision = revision /\ proposal'[p].over = over
      BY <2>2, <3>1 DEF Step, ProposalsMove, ProposalMoves
    <3> QED BY <3>3, <3>4
  <2> QED BY <2>1, <2>2
<1>2. ASSUME NEW d \in Clients, req'[d].op = "prepare"
      PROVE  Saw(req[d].beat, req[d].revision, req[d].over)'
  <2>1. CASE d = c
    BY <1>2, <2>1 DEF Joins
  <2>2. CASE d # c
    <3>1. req'[d] = req[d] /\ req[d] \in PrepareRequest
      BY <1>2, <2>2, RequestByOp DEF Step, OnlyActs, CanonTypeOK
    <3>2. PICK b, revision, over : b = req[d].beat /\ revision = req[d].revision
                                   /\ over = req[d].over
      OBVIOUS
    <3>3. b \in Entities /\ revision \in Nat /\ Saw(b, revision, over)
      BY <1>2, <3>1, <3>2 DEF ProposalsSaw, PrepareRequest, CanonAssumption, Entities
    <3>4. Saw(b, revision, over)'
      BY <3>3, SawLasts DEF CanonTypeOK, Step
    <3> QED BY <3>1, <3>2, <3>4
  <2> QED BY <2>1, <2>2
<1> QED BY <1>1, <1>2 DEF ProposalsSaw

LEMMA RowsStay ==
  ASSUME CanonTypeOK, RowsAreHeld, NEW c, Step(c), Respects(c), Joins(c)
  PROVE  RowsAreHeld'
<1> DEFINE Held(d) == /\ req[d].op = "prepare" => Status(req[d].proposal) = "none"
                      /\ req[d].op = "reject" => Status(req[d].proposal) = "pending"
<1>1. ASSUME NEW d \in Clients PROVE Held(d)'
  <2>1. CASE d = c
    BY <2>1 DEF Joins
  <2>2. CASE d # c
    <3>1. req'[d] = req[d]
      BY <2>2 DEF Step, OnlyActs
    <3>2. ASSUME req[d].op \in {"prepare", "reject"}
          PROVE  proposal'[req[d].proposal] = proposal[req[d].proposal]
      <4>1. req[d].proposal \in Proposals
        BY <3>2, RequestByOp DEF CanonTypeOK, PrepareRequest, RejectRequest
      <4> QED BY <2>2, <3>2, <4>1 DEF Respects
    <3> QED BY <3>1, <3>2 DEF RowsAreHeld, Status
  <2> QED BY <2>1, <2>2
<1>2. ASSUME NEW d \in Clients, NEW f \in Clients \ {d},
             req'[d].op \in {"prepare", "reject"}, req'[f].op = req'[d].op
      PROVE  req'[d].proposal # req'[f].proposal
  <2>1. CASE d # c /\ f # c
    BY <1>2, <2>1 DEF Step, OnlyActs, RowsAreHeld
  <2>2. CASE d = c
    BY <1>2, <2>2 DEF Step, OnlyActs, Joins
  <2>3. CASE f = c
    BY <1>2, <2>3 DEF Step, OnlyActs, Joins
  <2> QED BY <2>1, <2>2, <2>3
<1> QED BY <1>1, <1>2 DEF RowsAreHeld

LEMMA PackagesStay ==
  ASSUME CanonTypeOK, ProposalTypeOK, PackageTypeOK, PackagesStand,
         NEW c, Step(c), Joins(c), \A k \in Packages : PackageMoves(k)
  PROVE  PackagesStand'
<1>1. ASSUME NEW k \in Packages, package'[k].status # "none"
      PROVE  package'[k].prose \in Proposals /\ Status(package[k].prose)' # "none"
  <2>1. CASE package[k].status = "none" /\ package'[k] # package[k]
    BY <1>1, <2>1 DEF PackageMoves
  <2>2. CASE package[k].status # "none" /\ package'[k].prose = package[k].prose
    <3>1. PICK p : p = package[k].prose
      OBVIOUS
    <3>2. p \in Proposals /\ Status(p) # "none"
      BY <2>2, <3>1 DEF PackagesStand
    <3>3. Status(p)' # "none"
      BY <3>2, MovesTyped DEF Step
    <3> QED BY <2>2, <3>1, <3>2, <3>3
  <2> QED BY <1>1, <2>1, <2>2 DEF PackageMoves
<1>2. ASSUME NEW d \in Clients, req'[d].op = "publish"
      PROVE  /\ package'[req'[d].package].status # "none"
             /\ Status(package[req[d].package].prose)' = "accepted"
  <2>1. CASE d = c
    BY <1>2, <2>1 DEF Joins
  <2>2. CASE d # c
    <3>1. PICK k : k = req[d].package
      OBVIOUS
    <3>2. req'[d] = req[d] /\ k \in Packages
      BY <1>2, <2>2, <3>1, RequestByOp DEF Step, OnlyActs, CanonTypeOK, PublishRequest
    <3>3. PICK p : p = package[k].prose
      OBVIOUS
    <3>4. package[k].status # "none" /\ p \in Proposals /\ Status(p) = "accepted"
      BY <1>2, <3>1, <3>2, <3>3 DEF PackagesStand
    <3>5. Status(p)' = "accepted"
      BY <3>4, MovesTyped DEF Step
    <3>6. package'[k].prose = p /\ package'[k].status # "none"
      BY <3>2, <3>3, <3>4 DEF PackageMoves
    <3> QED BY <3>1, <3>2, <3>5, <3>6
  <2> QED BY <2>1, <2>2
<1> QED BY <1>1, <1>2 DEF PackagesStand

-----------------------------------------------------------------------------
\* The duties of every action.
Dutiful(c) ==
  Step(c) /\ Respects(c) /\ Joins(c) /\ \A k \in Packages : PackageMoves(k)

\* An edit raises the revision of one entity, and leaves its prose.
LEMMA CommitMoves ==
  ASSUME CanonTypeOK, NEW c \in Clients, Asks(c, "edit", "commit"),
         entity' = [entity EXCEPT ![req[c].entity] =
                      [@ EXCEPT !.revision = entity[req[c].entity].revision + 1]]
  PROVE  EntitiesMove /\ \A e \in Entities : entity'[e].accepted = entity[e].accepted
<1>1. req[c].entity \in Entities
  BY RequestByOp DEF Asks, CanonTypeOK, EditRequest
<1>2. PICK e : e = req[c].entity
  OBVIOUS
<1>3. entity'[e] = [revision |-> entity[e].revision + 1, accepted |-> entity[e].accepted]
  BY <1>1, <1>2 DEF CanonTypeOK, EntityTypeOK
<1>4. \A x \in Entities \ {e} : entity'[x] = entity[x]
  BY <1>1, <1>2 DEF CanonTypeOK, EntityTypeOK
<1> QED BY <1>3, <1>4 DEF EntitiesMove, EntityMoves

LEMMA CanonOnly ==
  ASSUME CanonTypeOK, ProseTypeOK, NEW c, UNCHANGED proseVars
  PROVE  /\ PackageTypeOK' /\ ProposalsMove /\ \A k \in Packages : PackageMoves(k)
         /\ (\A e \in Entities : entity'[e].accepted = entity[e].accepted) => Respects(c)
  BY DEF proseVars, ProseTypeOK, PackageTypeOK, ProposalTypeOK, ProposalsMove, ProposalMoves,
         PackageMoves, Respects

LEMMA EditDuties ==
  ASSUME CanonInv, ProseTypeOK, EditsSpareProse, NEW c \in Clients, EditNext(c),
         UNCHANGED proseVars
  PROVE  Dutiful(c)
<1>1. CanonTypeOK' /\ CanonIsSerial' /\ Lasting
  BY EditTyped, EditLasts DEF CanonInv
<1>2. EntitiesMove /\ \A e \in Entities : entity'[e].accepted = entity[e].accepted
  <2>1. CASE entity' = entity
    BY <2>1 DEF EntitiesMove, EntityMoves
  <2>2. CASE EditCommit(c)
    BY <2>1, <2>2, CommitMoves DEF EditCommit, Refused, CanonInv
  <2> QED BY <2>1, <2>2 DEF EditNext, OutlineUpsert, CharacterUpsert, FactUpsert, RevealCreate,
             Requests, EditGuard, Refused
<1>3. version =< version' /\ (entity' = entity \/ version' = version + 1)
  BY DEF EditNext, OutlineUpsert, CharacterUpsert, FactUpsert, RevealCreate, Requests,
         EditGuard, EditCommit, Refused, Applied, StillOn, CanonInv, CanonTypeOK, LogTypeOK
<1>4. OnlyActs(c) /\ Joins(c)
  <2>1. ASSUME NEW e \in Entities, NEW expected, Requests(c, e, expected)
        PROVE  OnlyActs(c) /\ Joins(c)
    BY <2>1 DEF Requests, OnlyActs, Joins, CanonInv, CanonTypeOK, RequestTypeOK, LogTypeOK
  <2>2. CASE Ends(c)
    BY <2>2 DEF Ends, OnlyActs, Joins, Idle, CanonInv, CanonTypeOK, RequestTypeOK
  <2>3. CASE EditGuard(c) /\ ~Ends(c)
    <3>1. /\ req[c] \in EditRequest /\ req' = [req EXCEPT ![c] = [@ EXCEPT !.at = "commit"]]
          /\ UNCHANGED <<version, entity>>
          /\ ~req[c].create => MayUpdate(req[c].entity)
      BY <2>3, RequestByOp DEF EditGuard, Asks, At, Refused, CanonInv, CanonTypeOK
    <3>2. /\ req'[c] = [req[c] EXCEPT !.at = "commit"]
          /\ \A d \in Clients \ {c} : req'[d] = req[d]
      BY <3>1 DEF CanonInv, CanonTypeOK, RequestTypeOK
    <3>3. /\ req'[c].op = "edit" /\ req'[c].base = req[c].base
          /\ req'[c].create = req[c].create /\ req'[c].entity = req[c].entity
      BY <3>1, <3>2 DEF EditRequest
    <3>4. req[c].base =< version
      BY <2>3 DEF EditGuard, Asks, EditsSpareProse
    <3>5. Joins(c)
      BY <3>1, <3>3, <3>4 DEF Joins, MayUpdate
    <3> QED BY <3>2, <3>5 DEF OnlyActs
  <2> QED BY <2>1, <2>2, <2>3 DEF EditNext, OutlineUpsert, CharacterUpsert, FactUpsert,
             RevealCreate, EditCommit, Refused
<1> QED BY <1>1, <1>2, <1>3, <1>4, CanonOnly DEF Dutiful, Step, CanonInv

LEMMA FoundationDuties ==
  ASSUME CanonInv, ProseTypeOK, NEW c \in Clients, FoundationNext(c), UNCHANGED proseVars
  PROVE  Dutiful(c)
<1>1. CanonTypeOK' /\ CanonIsSerial' /\ Lasting /\ entity' = entity
  BY FoundationTyped, FoundationLasts DEF CanonInv
<1>2. EntitiesMove /\ \A e \in Entities : entity'[e].accepted = entity[e].accepted
  BY <1>1 DEF EntitiesMove, EntityMoves
<1>3. version =< version'
  BY DEF FoundationNext, DraftRead, DraftWrite, Confirm, LockRead, LockWrite, ConceptRead,
         ConceptPrepare, ConceptCheck, ConceptCommit, Refused, Applied, StillOn,
         CanonInv, CanonTypeOK, LogTypeOK
<1>4. OnlyActs(c) /\ req'[c].op \notin {"edit", "prepare", "reject", "publish"}
  <2>1. CASE \/ \E ready, expected : DraftRead(c, ready, expected)
             \/ LockRead(c) \/ \E k : ConceptRead(c, k)
    BY <2>1 DEF DraftRead, LockRead, ConceptRead, OnlyActs, CanonInv, CanonTypeOK, RequestTypeOK
  <2>2. CASE Ends(c)
    BY <2>2 DEF Ends, OnlyActs, Idle, CanonInv, CanonTypeOK, RequestTypeOK
  <2>3. CASE Confirm(c)
    BY <2>3 DEF Confirm, OnlyActs, Idle
  <2>4. CASE Asks(c, "concept", req[c].at) /\ \E step : At(c, step)
    <3>1. req[c] \in ConceptRequest
      BY <2>4, RequestByOp DEF Asks, CanonInv, CanonTypeOK
    <3>2. req'[c].op = "concept"
      BY <2>4, <3>1 DEF At, CanonInv, CanonTypeOK, RequestTypeOK, ConceptRequest
    <3> QED BY <2>4, <3>2 DEF At, OnlyActs, CanonInv, CanonTypeOK, RequestTypeOK
  <2> QED BY <2>1, <2>2, <2>3, <2>4 DEF FoundationNext, DraftWrite, LockWrite,
             ConceptPrepare, ConceptCheck, ConceptCommit, Refused, Asks
<1>5. Joins(c)
  BY <1>4 DEF Joins
<1> QED BY <1>1, <1>2, <1>3, <1>4, <1>5, CanonOnly DEF Dutiful, Step, CanonInv

-----------------------------------------------------------------------------
\* Transactions that change no row but the client's own progress.
LEMMA ReadDuties ==
  ASSUME CanonTypeOK, CanonIsSerial, ProseTypeOK, NEW c \in Clients,
         NEW r \in Request, req' = [req EXCEPT ![c] = r], Reads(c), Joins(c)
  PROVE  Dutiful(c)
<1>1. Step(c)
  BY ReadSteps
<1>2. Respects(c) /\ \A k \in Packages : PackageMoves(k)
  BY DEF Reads, Respects, PackageMoves
<1> QED BY <1>1, <1>2 DEF Dutiful

LEMMA PrepareReadDuties ==
  ASSUME CanonAssumption, CanonInv, ProseTypeOK, NEW c \in Clients, NEW p \in Proposals,
         NEW b \in Beats, NEW g \in {p, AiGroup}, PrepareRead(c, p, b, g)
  PROVE  Dutiful(c)
<1> DEFINE r == [op |-> "prepare", at |-> "write", proposal |-> p, beat |-> b, group |-> g,
                 revision |-> entity[b].revision, over |-> entity[b].accepted]
<1>1. b \in Entities /\ entity[b].revision \in Nat /\ entity[b].accepted \in Proposals \cup {NoProse}
  BY DEF PrepareRead, Exists, CanonInv, CanonTypeOK, EntityTypeOK, CanonAssumption, Entities
<1>2. r \in Request
  BY <1>1 DEF Request, PrepareRequest, Groups
<1>3. req' = [req EXCEPT ![c] = r] /\ Reads(c)
  BY DEF PrepareRead, Reads, proseVars
<1>4. Joins(c)
  <2>1. req'[c] = r
    BY <1>3 DEF CanonInv, CanonTypeOK, RequestTypeOK
  <2>2. Saw(req[c].beat, req[c].revision, req[c].over)'
    BY <1>1, <1>3, <2>1 DEF Saw, Reads
  <2>3. Status(req[c].proposal)' = "none"
    BY <1>3, <2>1 DEF PrepareRead, Status, Reads
  <2>4. \A d \in Clients : req[d].op = "prepare" => req[d].proposal # p
    BY DEF PrepareRead, Reserved
  <2> QED BY <2>1, <2>2, <2>3, <2>4 DEF Joins
<1> QED BY <1>2, <1>3, <1>4, ReadDuties DEF CanonInv

LEMMA AcceptReadDuties ==
  ASSUME CanonInv, ProseTypeOK, NEW c \in Clients, NEW p \in Proposals,
         NEW base \in 0..version, AcceptRead(c, p, base)
  PROVE  Dutiful(c)
<1>1. PICK r \in Request : req' = [req EXCEPT ![c] = r] /\ r.op \in {"accept", "stale"}
  <2>1. [op |-> "accept", at |-> "commit", proposal |-> p, base |-> base,
         siblings |-> PendingIn(proposal[p].group) \ {p}] \in Request
    BY DEF Request, AcceptRequest, PendingIn, CanonInv, CanonTypeOK, LogTypeOK
  <2>2. [op |-> "stale", at |-> "write", proposal |-> p] \in Request
    BY DEF Request, StaleRequest
  <2> QED BY <2>1, <2>2 DEF AcceptRead
<1>2. Reads(c)
  BY DEF AcceptRead, Reads, proseVars
<1>3. Joins(c)
  BY <1>1 DEF Joins, CanonInv, CanonTypeOK, RequestTypeOK
<1> QED BY <1>1, <1>2, <1>3, ReadDuties DEF CanonInv

LEMMA RejectMarkDuties ==
  ASSUME CanonInv, ProseTypeOK, NEW c \in Clients, NEW p \in Proposals, RejectMark(c, p)
  PROVE  Dutiful(c)
<1>1. PICK last : last = (PendingIn(proposal[p].group) = {p})
  OBVIOUS
<1>2. PICK r : r = [op |-> "reject", at |-> "commit", proposal |-> p, last |-> last]
  OBVIOUS
<1>3. r \in Request /\ r.op = "reject" /\ r.proposal = p
  BY <1>1, <1>2 DEF Request, RejectRequest
<1>4. req' = [req EXCEPT ![c] = r] /\ Reads(c)
  BY <1>1, <1>2 DEF RejectMark, Reads, proseVars
<1>5. Joins(c)
  <2>1. req'[c] = r
    BY <1>4 DEF CanonInv, CanonTypeOK, RequestTypeOK
  <2>2. Status(p)' = "pending"
    BY <1>4 DEF RejectMark, Status, Reads
  <2>3. \A d \in Clients : req[d].op = "reject" => req[d].proposal # p
    BY DEF RejectMark, RowFree
  <2> QED BY <1>3, <2>1, <2>2, <2>3 DEF Joins
<1> QED BY <1>3, <1>4, <1>5, ReadDuties DEF CanonInv

LEMMA PublishReadDuties ==
  ASSUME CanonInv, ProseTypeOK, AcceptedStands, PackagesStand, ProposalsSaw, CanonAssumption,
         NEW c \in Clients, NEW k \in Packages, PublishRead(c, k)
  PROVE  Dutiful(c)
<1>1. PICK r : r = [op |-> "publish", at |-> "write", package |-> k]
  OBVIOUS
<1>2. r \in Request /\ r.op = "publish" /\ r.package = k
  BY <1>1 DEF Request, PublishRequest
<1>3. req' = [req EXCEPT ![c] = r] /\ Reads(c)
  BY <1>1 DEF PublishRead, Reads, proseVars
<1>4. Joins(c)
  <2>1. req'[c] = r
    BY <1>3 DEF CanonInv, CanonTypeOK, RequestTypeOK
  <2>2. PICK p : p = package[k].prose
    OBVIOUS
  <2>3. p \in Proposals /\ Status(p) # "none" /\ IsAccepted(p)
    BY <2>2 DEF PublishRead, PackagesStand
  <2>4. Status(p) = "accepted"
    BY <2>3, ProposalShape DEF IsAccepted, AcceptedStands, ProseTypeOK
  <2>5. package'[k].status # "none" /\ package'[k].prose = p /\ Status(p)' = "accepted"
    BY <1>3, <2>2, <2>4 DEF PublishRead, Reads, Status
  <2> QED BY <1>2, <2>1, <2>5 DEF Joins
<1> QED BY <1>2, <1>3, <1>4, ReadDuties DEF CanonInv

-----------------------------------------------------------------------------
\* Transactions that write proposals.

\* The canon stays where it is; the client is done.
LEMMA ProposalWriteDuties ==
  ASSUME CanonTypeOK, CanonIsSerial, ProseTypeOK, NEW c \in Clients, Ends(c),
         ProposalsMove, Respects(c),
         UNCHANGED <<version, log, entity, foundation, package, artifacts>>
  PROVE  Dutiful(c)
<1>1. RequestTypeOK' /\ OnlyActs(c) /\ req'[c] = Idle
  BY EndsKeepsType DEF CanonTypeOK, RequestTypeOK, OnlyActs, Ends
<1>2. CanonTypeOK' /\ CanonIsSerial'
  BY <1>1 DEF CanonTypeOK, LogTypeOK, EntityTypeOK, FoundationTypeOK, CanonIsSerial
<1>3. PackageTypeOK' /\ EntitiesMove /\ Lasting /\ version =< version'
  BY DEF ProseTypeOK, PackageTypeOK, EntitiesMove, EntityMoves, Lasting, Exists,
         CanonTypeOK, LogTypeOK
<1>4. Joins(c)
  BY <1>1 DEF Joins, Idle
<1>5. \A k \in Packages : PackageMoves(k)
  BY DEF PackageMoves
<1> QED BY <1>1, <1>2, <1>3, <1>4, <1>5 DEF Dutiful, Step

\* One row is written.
LEMMA OneMoves ==
  ASSUME ProposalTypeOK, NEW p \in Proposals, NEW row \in Proposal,
         proposal' = [proposal EXCEPT ![p] = row],
         \/ Status(p) = "none" /\ row.status = "pending"
         \/ /\ Status(p) = "pending" /\ row.status # "pending"
            /\ row.beat = proposal[p].beat /\ row.revision = proposal[p].revision
            /\ row.over = proposal[p].over
  PROVE  /\ ProposalsMove /\ proposal'[p] = row
         /\ \A q \in Proposals \ {p} : proposal'[q] = proposal[q]
  BY DEF ProposalTypeOK, ProposalsMove, ProposalMoves

\* A row that is marked, and that no other request holds.
LEMMA MarkMoves ==
  ASSUME ProseTypeOK, RowsAreHeld, NEW c \in Clients, NEW p \in Proposals, Status(p) = "pending",
         NEW status \in {"accepted", "superseded", "stale", "rejected"},
         proposal' = Settled(p, status), entity' = entity,
         \A d \in Clients \ {c} : ~(req[d].op = "reject" /\ req[d].proposal = p)
  PROVE  ProposalsMove /\ Respects(c)
<1>1. proposal[p] \in Proposal
  BY ProposalShape DEF ProseTypeOK
<1>2. PICK row : row = [proposal[p] EXCEPT !.status = status]
  OBVIOUS
<1>3. /\ row \in Proposal /\ row.status = status /\ row.beat = proposal[p].beat
      /\ row.revision = proposal[p].revision /\ row.over = proposal[p].over
  BY <1>1, <1>2, MarkedShape
<1>4. proposal' = [proposal EXCEPT ![p] = row]
  BY <1>2 DEF Settled
<1>5. status # "pending"
  OBVIOUS
<1>6. /\ ProposalsMove
      /\ \A q \in Proposals \ {p} : proposal'[q] = proposal[q]
  BY <1>3, <1>4, <1>5, OneMoves DEF ProseTypeOK
<1>7. \A d \in Clients : req[d].op = "prepare" => req[d].proposal # p
  BY DEF RowsAreHeld
<1> QED BY <1>6, <1>7 DEF Respects

LEMMA PrepareWriteDuties ==
  ASSUME CanonInv, ProseInv, NEW c \in Clients, PrepareWrite(c)
  PROVE  Dutiful(c)
<1>1. req[c] \in PrepareRequest /\ req[c].op = "prepare"
  BY RequestByOp DEF PrepareWrite, Asks, CanonInv, CanonTypeOK
<1>2. PICK p, row : /\ p = req[c].proposal
                    /\ row = [status |-> "pending", group |-> req[c].group, beat |-> req[c].beat,
                              revision |-> req[c].revision, over |-> req[c].over]
  OBVIOUS
<1>3. p \in Proposals /\ row \in Proposal /\ row.status = "pending"
  BY <1>1, <1>2 DEF Proposal, PrepareRequest
<1>4. proposal' = [proposal EXCEPT ![p] = row] /\ Status(p) = "none"
  BY <1>1, <1>2 DEF PrepareWrite, ProseInv, RowsAreHeld
<1>5. /\ ProposalsMove /\ proposal'[p] = row
      /\ \A q \in Proposals \ {p} : proposal'[q] = proposal[q]
  BY <1>3, <1>4, OneMoves DEF ProseInv, ProseTypeOK
<1>6. Saw(proposal[p].beat, proposal[p].revision, proposal[p].over)'
  <2>1. Saw(req[c].beat, req[c].revision, req[c].over)
    BY <1>1 DEF ProseInv, ProposalsSaw
  <2>2. /\ proposal'[p].beat = req[c].beat /\ proposal'[p].revision = req[c].revision
        /\ proposal'[p].over = req[c].over /\ entity' = entity
    BY <1>2, <1>5 DEF PrepareWrite
  <2> QED BY <2>1, <2>2 DEF Saw
<1>7. \A d \in Clients \ {c} : req[d].op \in {"prepare", "reject"} => req[d].proposal # p
  BY <1>1, <1>2, <1>4 DEF ProseInv, RowsAreHeld
<1>8. Respects(c)
  BY <1>5, <1>6, <1>7 DEF Respects, PrepareWrite
<1> QED BY <1>5, <1>8, ProposalWriteDuties DEF PrepareWrite, CanonInv, ProseInv

LEMMA MarkStaleDuties ==
  ASSUME CanonInv, ProseInv, NEW c \in Clients, MarkStale(c)
  PROVE  Dutiful(c)
<1>1. req[c].proposal \in Proposals
  BY RequestByOp DEF MarkStale, Asks, CanonInv, CanonTypeOK, StaleRequest
<1>2. PICK p \in Proposals : p = req[c].proposal
  BY <1>1
<1>3. ProposalsMove /\ Respects(c)
  <2>1. CASE Settles(p)
    <3>1. proposal' = Settled(p, "stale") /\ entity' = entity
      BY <1>2, <2>1 DEF MarkStale
    <3>2. \A d \in Clients \ {c} : ~(req[d].op = "reject" /\ req[d].proposal = p)
      BY <1>2 DEF MarkStale, RowFree
    <3> QED BY <2>1, <3>1, <3>2, MarkMoves DEF Settles, ProseInv
  <2>2. CASE ~Settles(p)
    BY <1>2, <2>2 DEF MarkStale, ProposalsMove, ProposalMoves, Respects, ProseInv, ProseTypeOK,
                      ProposalTypeOK
  <2> QED BY <2>1, <2>2
<1> QED BY <1>3, ProposalWriteDuties DEF MarkStale, CanonInv, ProseInv

LEMMA RejectCommitDuties ==
  ASSUME CanonInv, ProseInv, NEW c \in Clients, RejectCommit(c)
  PROVE  Dutiful(c)
<1>1. req[c].op = "reject" /\ req[c].proposal \in Proposals
  BY RequestByOp DEF RejectCommit, Asks, CanonInv, CanonTypeOK, RejectRequest
<1>2. PICK p \in Proposals : p = req[c].proposal
  BY <1>1
<1>3. Status(p) = "pending" /\ \A d \in Clients \ {c} : req[d].op = "reject" => req[d].proposal # p
  BY <1>1, <1>2 DEF ProseInv, RowsAreHeld
<1>4. proposal' = Settled(p, "rejected") /\ entity' = entity
  BY <1>2 DEF RejectCommit
<1>5. ProposalsMove /\ Respects(c)
  BY <1>3, <1>4, MarkMoves DEF ProseInv
<1> QED BY <1>5, ProposalWriteDuties DEF RejectCommit, CanonInv, ProseInv

-----------------------------------------------------------------------------
\* Accepting.

\* The beat, its proposal and the log, when an acceptance goes through.
AcceptGoes(c, p) ==
  /\ Asks(c, "accept", "commit") /\ req[c].proposal = p
  /\ \A s \in req[c].siblings \cup {p} : RowFree(s)
  /\ BeatAccepts(p) /\ Settles(p) /\ StillOn(req[c].base)
  /\ entity' = BeatAccepted(p)
  /\ Applied(req[c].base, p)
  /\ proposal' = [q \in Proposals |->
       IF q = p THEN [proposal[q] EXCEPT !.status = "accepted"]
       ELSE IF q \in req[c].siblings /\ Settles(q)
            THEN [proposal[q] EXCEPT !.status = "superseded"]
            ELSE proposal[q]]
  /\ Ends(c)
  /\ UNCHANGED <<foundation, package, artifacts>>

LEMMA AcceptCases ==
  ASSUME CanonTypeOK, NEW c \in Clients, AcceptCommit(c)
  PROVE  \E p \in Proposals :
           \/ AcceptGoes(c, p)
           \/ /\ req' = [req EXCEPT ![c] = [op |-> "stale", at |-> "write", proposal |-> p]]
              /\ Reads(c)
<1>1. req[c].proposal \in Proposals
  BY RequestByOp DEF AcceptCommit, Asks, CanonTypeOK, AcceptRequest
<1>2. PICK p \in Proposals : p = req[c].proposal
  BY <1>1
<1>3. AcceptGoes(c, p) \/ /\ req' = [req EXCEPT ![c] = [op |-> "stale", at |-> "write", proposal |-> p]]
                          /\ Reads(c)
  BY <1>2 DEF AcceptCommit, AcceptGoes, Reads
<1> QED BY <1>3

\* The beat takes the prose at the revision it was prepared over.
LEMMA AcceptedEntity ==
  ASSUME CanonAssumption, CanonInv, ProseInv, NEW c \in Clients, NEW p \in Proposals,
         AcceptGoes(c, p)
  PROVE  LET b == proposal[p].beat IN
         /\ b \in Beats /\ b \in Entities /\ Exists(b)
         /\ entity[b].revision = proposal[p].revision /\ entity[b].accepted = proposal[p].over
         /\ entity' = [entity EXCEPT ![b] = [revision |-> entity[b].revision + 1, accepted |-> p]]
         /\ entity'[b] = [revision |-> entity[b].revision + 1, accepted |-> p]
         /\ \A e \in Entities \ {b} : entity'[e] = entity[e]
         /\ EntityTypeOK'
<1>1. PICK b : b = proposal[p].beat
  OBVIOUS
<1>2. Status(p) # "none"
  BY DEF AcceptGoes, Settles
<1>3. b \in Beats /\ b \in Entities /\ proposal[p].revision \in Nat
  BY <1>1, <1>2, ProposalShape DEF ProseInv, ProseTypeOK
<1>4. entity[b].revision = proposal[p].revision
  BY <1>1 DEF AcceptGoes, BeatAccepts
<1>5. entity[b].accepted = proposal[p].over
  BY <1>1, <1>2, <1>4 DEF ProseInv, ProposalsSaw, Saw
<1>6. Exists(b)
  BY <1>3, <1>4 DEF Exists, Absent
<1>7. entity' = [entity EXCEPT ![b] = [revision |-> entity[b].revision + 1, accepted |-> p]]
  BY <1>1 DEF AcceptGoes, BeatAccepted
<1>8. /\ entity'[b] = [revision |-> entity[b].revision + 1, accepted |-> p]
      /\ \A e \in Entities \ {b} : entity'[e] = entity[e]
      /\ EntityTypeOK'
  BY <1>3, <1>4, <1>7 DEF CanonInv, CanonTypeOK, EntityTypeOK
<1> QED BY <1>1, <1>3, <1>4, <1>5, <1>6, <1>7, <1>8

\* One proposal becomes accepted, and its pending siblings are superseded.
LEMMA AcceptedProposals ==
  ASSUME ProseTypeOK, NEW c \in Clients, NEW p \in Proposals, AcceptGoes(c, p)
  PROVE  /\ ProposalsMove
         /\ Status(p)' = "accepted"
         /\ \A q \in Proposals : proposal'[q] # proposal[q] => Status(q) = "pending" /\ RowFree(q)
         /\ \A q \in Proposals \ {p} : proposal'[q].status = "accepted" => Status(q) = "accepted"
<1>1. ASSUME NEW q \in Proposals
      PROVE  /\ ProposalMoves(q)
             /\ proposal'[q] # proposal[q] => Status(q) = "pending" /\ RowFree(q)
             /\ q = p => Status(q)' = "accepted"
             /\ q # p /\ proposal'[q].status = "accepted" => Status(q) = "accepted"
  <2>1. ASSUME NEW status \in {"accepted", "superseded"}, Settles(q), RowFree(q),
               proposal'[q] = [proposal[q] EXCEPT !.status = status]
        PROVE  ProposalMoves(q) /\ Status(q) = "pending" /\ Status(q)' = status
    <3>1. proposal[q] \in Proposal /\ Status(q) = "pending"
      BY <2>1, ProposalShape DEF ProseTypeOK, Settles
    <3>2. PICK row \in Proposal : row = proposal[q]
      BY <3>1
    <3>3. /\ proposal'[q] \in Proposal /\ proposal'[q].status = status
          /\ proposal'[q].beat = proposal[q].beat
          /\ proposal'[q].revision = proposal[q].revision
          /\ proposal'[q].over = proposal[q].over
      <4>1. proposal'[q] = [row EXCEPT !.status = status]
        BY <2>1, <3>2
      <4>2. status \in {"accepted", "superseded", "stale", "rejected"}
        OBVIOUS
      <4>3. PICK marked : marked = [row EXCEPT !.status = status]
        OBVIOUS
      <4>4. /\ marked \in Proposal /\ marked.status = status /\ marked.beat = row.beat
            /\ marked.revision = row.revision /\ marked.over = row.over
        BY <4>2, <4>3, MarkedShape
      <4> QED BY <3>2, <4>1, <4>3, <4>4
    <3> QED BY <3>1, <3>3 DEF ProposalMoves, Status
  <2>2. CASE q = p
    BY <2>1, <2>2 DEF AcceptGoes
  <2>3. CASE q # p /\ q \in req[c].siblings /\ Settles(q)
    <3>1. RowFree(q) /\ proposal'[q] = [proposal[q] EXCEPT !.status = "superseded"]
      BY <2>3 DEF AcceptGoes
    <3>2. ProposalMoves(q) /\ Status(q) = "pending" /\ Status(q)' = "superseded"
      BY <2>1, <2>3, <3>1
    <3> QED BY <2>3, <3>1, <3>2 DEF Status
  <2>4. CASE q # p /\ ~(q \in req[c].siblings /\ Settles(q))
    <3>1. proposal'[q] = proposal[q]
      BY <2>4 DEF AcceptGoes
    <3> QED BY <2>4, <3>1 DEF ProposalMoves, Status
  <2> QED BY <2>2, <2>3, <2>4
<1>2. proposal' = [q \in Proposals |-> proposal'[q]]
  BY DEF AcceptGoes
<1> QED BY <1>1, <1>2 DEF ProposalsMove

LEMMA AcceptDuties ==
  ASSUME CanonAssumption, CanonInv, ProseInv, NEW c \in Clients, NEW p \in Proposals,
         AcceptGoes(c, p)
  PROVE  Dutiful(c)
<1>1. PICK b : b = proposal[p].beat
  OBVIOUS
<1>2. /\ b \in Entities /\ Exists(b)
      /\ entity'[b] = [revision |-> entity[b].revision + 1, accepted |-> p]
      /\ \A e \in Entities \ {b} : entity'[e] = entity[e]
      /\ EntityTypeOK'
  BY <1>1, AcceptedEntity
<1>3. RequestTypeOK' /\ OnlyActs(c) /\ req'[c] = Idle
  BY EndsKeepsType DEF AcceptGoes, CanonInv, CanonTypeOK, RequestTypeOK, OnlyActs, Ends
<1>4. LogTypeOK' /\ CanonIsSerial' /\ version' = version + 1 /\ version =< version'
  <2>1. p \in Changes /\ StillOn(req[c].base) /\ Applied(req[c].base, p)
    BY DEF AcceptGoes, Changes
  <2>2. LogTypeOK' /\ CanonIsSerial'
    BY <2>1, AppliedIsSerial DEF CanonInv, CanonTypeOK
  <2> QED BY <2>1, <2>2 DEF StillOn, Applied, CanonInv, CanonTypeOK, LogTypeOK
<1>5. CanonTypeOK' /\ PackageTypeOK'
  BY <1>2, <1>3, <1>4 DEF AcceptGoes, CanonTypeOK, FoundationTypeOK, PackageTypeOK, CanonInv,
     ProseInv, ProseTypeOK
<1>6. EntitiesMove
  BY <1>2 DEF EntitiesMove, EntityMoves
<1>7. Lasting
  <2>1. \A e \in Entities : Exists(e) => Exists(e)'
    BY <1>2 DEF Exists, Absent, CanonInv, CanonTypeOK, EntityTypeOK
  <2> QED BY <2>1 DEF AcceptGoes, Lasting
<1>8. Respects(c)
  <2>1. \A e \in Entities : entity'[e].accepted # entity[e].accepted =>
          entity'[e].accepted = p /\ Status(p)' = "accepted"
    BY <1>2, AcceptedProposals DEF ProseInv
  <2>2. \A q \in Proposals : proposal'[q] # proposal[q] => Status(q) = "pending" /\ RowFree(q)
    BY AcceptedProposals DEF ProseInv
  <2>3. \A q \in Proposals, d \in Clients :
          Status(q) = "pending" /\ RowFree(q) /\ req[d].op \in {"prepare", "reject"}
            => req[d].proposal # q
    BY DEF ProseInv, RowsAreHeld, RowFree
  <2> QED BY <2>1, <2>2, <2>3 DEF Respects
<1>9. Joins(c) /\ \A k \in Packages : PackageMoves(k)
  BY <1>3 DEF Joins, Idle, PackageMoves, AcceptGoes
<1> QED BY <1>3, <1>4, <1>5, <1>6, <1>7, <1>8, <1>9, AcceptedProposals
        DEF Dutiful, Step, ProseInv

LEMMA AcceptCommitDuties ==
  ASSUME CanonAssumption, CanonInv, ProseInv, NEW c \in Clients, AcceptCommit(c)
  PROVE  Dutiful(c)
<1>1. PICK p \in Proposals :
        \/ AcceptGoes(c, p)
        \/ /\ req' = [req EXCEPT ![c] = [op |-> "stale", at |-> "write", proposal |-> p]]
           /\ Reads(c)
  BY AcceptCases DEF CanonInv
<1>2. CASE AcceptGoes(c, p)
  BY <1>2, AcceptDuties
<1>3. CASE /\ req' = [req EXCEPT ![c] = [op |-> "stale", at |-> "write", proposal |-> p]]
           /\ Reads(c)
  <2>1. PICK r : r = [op |-> "stale", at |-> "write", proposal |-> p]
    OBVIOUS
  <2>2. r \in Request /\ r.op = "stale" /\ req' = [req EXCEPT ![c] = r]
    BY <1>3, <2>1 DEF Request, StaleRequest
  <2>3. Joins(c)
    BY <2>2 DEF Joins, CanonInv, CanonTypeOK, RequestTypeOK
  <2> QED BY <1>3, <2>2, <2>3, ReadDuties DEF CanonInv, ProseInv
<1> QED BY <1>1, <1>2, <1>3

-----------------------------------------------------------------------------
\* Publishing.
LEMMA PublishWriteDuties ==
  ASSUME CanonInv, ProseInv, NEW c \in Clients, PublishWrite(c)
  PROVE  /\ Dutiful(c)
         /\ \A a \in artifacts' \ artifacts :
              package'[a[1]] = [status |-> "accepted", prose |-> a[2]] /\ Status(a[2])' = "accepted"
<1>1. req[c].op = "publish" /\ req[c].package \in Packages
  BY RequestByOp DEF PublishWrite, Asks, CanonInv, CanonTypeOK, PublishRequest
<1>2. PICK k \in Packages : k = req[c].package
  BY <1>1
<1>3. PICK p : p = package[k].prose
  OBVIOUS
<1>4. p \in Proposals /\ Status(p) = "accepted"
  BY <1>1, <1>2, <1>3 DEF ProseInv, PackagesStand
<1>5. /\ PackageTypeOK' /\ \A j \in Packages : PackageMoves(j)
      /\ \A a \in artifacts' \ artifacts :
           a[1] = k /\ a[2] = p /\ package'[k] = [status |-> "accepted", prose |-> p]
  <2>1. CASE package[k].status = "pending"
    <3>1. /\ package' = [package EXCEPT ![k] = [@ EXCEPT !.status = "accepted"]]
          /\ artifacts' = artifacts \cup {<<k, p>>}
      BY <1>2, <1>3, <2>1 DEF PublishWrite
    <3>2. /\ package'[k] = [status |-> "accepted", prose |-> p]
          /\ \A j \in Packages \ {k} : package'[j] = package[j]
          /\ package' \in [Packages -> [status : {"none", "pending", "accepted"},
                                        prose : Proposals \cup {NoProse}]]
      BY <1>3, <1>4, <3>1 DEF ProseInv, ProseTypeOK, PackageTypeOK
    <3>3. PackageTypeOK'
      BY <1>4, <3>1, <3>2 DEF ProseInv, ProseTypeOK, PackageTypeOK
    <3>4. \A j \in Packages : PackageMoves(j)
      BY <1>3, <2>1, <3>2 DEF PackageMoves
    <3> QED BY <3>1, <3>2, <3>3, <3>4
  <2>2. CASE package[k].status # "pending"
    BY <1>2, <2>2 DEF PublishWrite, PackageMoves, ProseInv, ProseTypeOK, PackageTypeOK
  <2> QED BY <2>1, <2>2
<1>6. RequestTypeOK' /\ OnlyActs(c) /\ req'[c] = Idle
  BY EndsKeepsType DEF PublishWrite, CanonInv, CanonTypeOK, RequestTypeOK, OnlyActs, Ends
<1>7. /\ CanonTypeOK' /\ CanonIsSerial' /\ Lasting /\ EntitiesMove /\ ProposalsMove
      /\ entity' = entity /\ version =< version'
  BY <1>6 DEF PublishWrite, CanonInv, CanonTypeOK, LogTypeOK, EntityTypeOK, FoundationTypeOK,
     CanonIsSerial, Lasting, Exists, EntitiesMove, EntityMoves, ProposalsMove, ProposalMoves,
     ProseInv, ProseTypeOK, ProposalTypeOK
<1>8. Respects(c) /\ Joins(c)
  BY <1>6 DEF PublishWrite, Respects, Joins, Idle
<1>9. Status(p)' = "accepted"
  BY <1>4 DEF PublishWrite, Status
<1> QED BY <1>5, <1>6, <1>7, <1>8, <1>9 DEF Dutiful, Step

\* The worker is no client: it acts under the name of nobody.
LEMMA PackageDuties ==
  ASSUME CanonAssumption, CanonInv, ProseInv, NEW k \in Packages, NEW p \in Proposals,
         PackageArrives(k, p)
  PROVE  Dutiful(NoHolder)
<1>1. package' = [package EXCEPT ![k] = [status |-> "pending", prose |-> p]]
  BY DEF PackageArrives
<1>2. PackageTypeOK' /\ \A j \in Packages : PackageMoves(j)
  BY <1>1 DEF PackageArrives, PackageMoves, Status, ProseInv, ProseTypeOK, PackageTypeOK
<1>3. /\ CanonTypeOK' /\ CanonIsSerial' /\ Lasting /\ EntitiesMove /\ ProposalsMove
      /\ entity' = entity /\ version =< version' /\ OnlyActs(NoHolder)
  BY DEF PackageArrives, CanonInv, CanonTypeOK, LogTypeOK, EntityTypeOK, FoundationTypeOK,
     RequestTypeOK, CanonIsSerial, Lasting, Exists, EntitiesMove, EntityMoves, ProposalsMove,
     ProposalMoves, ProseInv, ProseTypeOK, ProposalTypeOK, OnlyActs
<1>4. Respects(NoHolder) /\ Joins(NoHolder)
  BY DEF PackageArrives, Respects, Joins, CanonAssumption
<1> QED BY <1>2, <1>3, <1>4 DEF Dutiful, Step

-----------------------------------------------------------------------------
\* No prose step lets an edit pass a guard, or creates an entity.
LEMMA ProseFrame ==
  ASSUME CanonAssumption, CanonInv, ProseInv, NEW c \in Clients, ProseNext(c)
  PROVE  /\ \A d \in Clients : req'[d] = req[d] \/ req'[d].op # "edit"
         /\ \A e \in Entities : Exists(e)' => Exists(e)
<1> USE DEF CanonInv, CanonTypeOK, RequestTypeOK
<1>1. ASSUME NEW r, req' = [req EXCEPT ![c] = r], r.op # "edit"
      PROVE  \A d \in Clients : req'[d] = req[d] \/ req'[d].op # "edit"
  BY <1>1
<1>2. CASE Ends(c) /\ entity' = entity
  BY <1>1, <1>2 DEF Ends, Idle, Exists
<1>3. CASE \/ \E p, b, g : PrepareRead(c, p, b, g)
           \/ \E p, base : AcceptRead(c, p, base)
           \/ \E p : RejectMark(c, p)
           \/ \E k : PublishRead(c, k)
  <2>1. \E r : req' = [req EXCEPT ![c] = r] /\ r.op # "edit"
    BY <1>3 DEF PrepareRead, AcceptRead, RejectMark, PublishRead
  <2>2. entity' = entity
    BY <1>3 DEF PrepareRead, AcceptRead, RejectMark, PublishRead
  <2> QED BY <1>1, <2>1, <2>2 DEF Exists
<1>4. CASE AcceptCommit(c)
  <2>1. PICK p \in Proposals :
          \/ AcceptGoes(c, p)
          \/ /\ req' = [req EXCEPT ![c] = [op |-> "stale", at |-> "write", proposal |-> p]]
             /\ Reads(c)
    BY <1>4, AcceptCases
  <2>2. CASE AcceptGoes(c, p)
    <3>1. \A e \in Entities : entity'[e] # entity[e] => Exists(e)
      BY <2>2, AcceptedEntity
    <3>2. Ends(c)
      BY <2>2 DEF AcceptGoes
    <3> QED BY <1>1, <3>1, <3>2 DEF Exists, Ends, Idle
  <2>3. CASE /\ req' = [req EXCEPT ![c] = [op |-> "stale", at |-> "write", proposal |-> p]]
             /\ Reads(c)
    BY <1>1, <2>3 DEF Reads, Exists
  <2> QED BY <2>1, <2>2, <2>3
<1> QED BY <1>2, <1>3, <1>4 DEF ProseNext, PrepareWrite, MarkStale, RejectCommit, PublishWrite

LEMMA GuardsFrame ==
  ASSUME CanonAssumption, CanonInv, Lasting,
         \A d \in Clients : req'[d] = req[d] \/ req'[d].op # "edit",
         \A e \in Entities : Exists(e)' => Exists(e)
  PROVE  GuardsHold' /\ OutlineRestsOnLock'
<1>1. ASSUME NEW d \in Clients, (Asks(d, "edit", "commit") /\ req[d].create /\ req[d].entity \in Outline)'
      PROVE  Permitted(req[d].entity)'
  <2>1. req'[d] = req[d]
    BY <1>1 DEF Asks
  <2>2. PICK e : e = req[d].entity
    OBVIOUS
  <2>3. e \in Outline /\ Permitted(e)
    BY <1>1, <2>1, <2>2 DEF CanonInv, GuardsHold, Asks
  <2>4. Permitted(e)'
    BY <2>3, PermittedLasts
  <2> QED BY <2>1, <2>2, <2>4
<1>2. ASSUME NEW e \in Outline, Exists(e)' PROVE Permitted(e)'
  <2>1. Permitted(e)
    BY <1>2 DEF CanonInv, OutlineRestsOnLock, Permitted, Entities
  <2> QED BY <2>1, PermittedLasts
<1> QED BY <1>1, <1>2 DEF GuardsHold, OutlineRestsOnLock, Permitted

\* Published artifacts are left as they are.
LEMMA ArtifactsStay ==
  ASSUME ProposalTypeOK, PackageTypeOK, ArtifactsStand, NEW c, Dutiful(c),
         \A a \in artifacts' \ artifacts :
           package'[a[1]] = [status |-> "accepted", prose |-> a[2]] /\ Status(a[2])' = "accepted"
  PROVE  ArtifactsStand'
<1> SUFFICES ASSUME NEW a \in artifacts, a \in artifacts'
             PROVE  package'[a[1]] = [status |-> "accepted", prose |-> a[2]]
                    /\ Status(a[2])' = "accepted"
  BY DEF ArtifactsStand
<1>1. PICK k \in Packages, p \in Proposals : a[1] = k /\ a[2] = p
  BY DEF PackageTypeOK
<1>2. package[k] = [status |-> "accepted", prose |-> p] /\ Status(p) = "accepted"
  BY <1>1 DEF ArtifactsStand
<1>3. package'[k] = package[k]
  BY <1>2 DEF Dutiful, PackageMoves
<1>4. Status(p)' = "accepted"
  BY <1>2, MovesTyped DEF Dutiful, Step
<1> QED BY <1>1, <1>2, <1>3, <1>4

-----------------------------------------------------------------------------
LEMMA StoryInitInv == ASSUME ManuscriptInit PROVE StoryInv
<1> USE DEF ManuscriptInit, CanonInit, ProseInit
<1>1. CanonTypeOK
  BY DEF CanonTypeOK, LogTypeOK, EntityTypeOK, FoundationTypeOK, RequestTypeOK, Request
<1>2. CanonIsSerial
  BY DEF CanonIsSerial
<1>3. GuardsHold /\ OutlineRestsOnLock
  BY DEF GuardsHold, Asks, Idle, OutlineRestsOnLock, Exists, Entities
<1>4. ProseTypeOK
  BY DEF ProseTypeOK, ProposalTypeOK, PackageTypeOK
<1>5. AcceptedStands
  BY ManuscriptAssumption DEF AcceptedStands, ManuscriptAssumption
<1>6. EditsSpareProse /\ ProposalsSaw /\ RowsAreHeld /\ PackagesStand /\ ArtifactsStand
  BY DEF EditsSpareProse, ProposalsSaw, RowsAreHeld, PackagesStand, ArtifactsStand, Idle,
         Status, NoProposal
<1> QED BY <1>1, <1>2, <1>3, <1>4, <1>5, <1>6 DEF StoryInv, CanonInv, ProseInv

\* A dutiful step that published nothing wrong keeps what holds of the prose.
LEMMA DutifulKeeps ==
  ASSUME CanonAssumption, StoryInv, NEW c, Dutiful(c), ArtifactsStand'
  PROVE  CanonTypeOK' /\ CanonIsSerial' /\ ProseInv'
<1>1. CanonTypeOK' /\ CanonIsSerial' /\ ProseTypeOK'
  BY MovesTyped DEF Dutiful, Step, StoryInv, ProseInv, ProseTypeOK
<1>2. AcceptedStands' /\ EditsSpareProse' /\ ProposalsSaw' /\ RowsAreHeld' /\ PackagesStand'
  BY AcceptedStay, EditsStay, SawStays, RowsStay, PackagesStay
     DEF Dutiful, StoryInv, CanonInv, ProseInv, ProseTypeOK
<1> QED BY <1>1, <1>2 DEF ProseInv

LEMMA ProseDuties ==
  ASSUME CanonAssumption, StoryInv, NEW c \in Clients, ProseNext(c)
  PROVE  /\ Dutiful(c)
         /\ \A a \in artifacts' \ artifacts :
              package'[a[1]] = [status |-> "accepted", prose |-> a[2]] /\ Status(a[2])' = "accepted"
<1>1. CASE PublishWrite(c)
  BY <1>1, PublishWriteDuties DEF StoryInv
<1>2. CASE ~PublishWrite(c)
  <2>1. artifacts' = artifacts
    BY <1>2 DEF ProseNext, PrepareRead, PrepareWrite, AcceptRead, AcceptCommit, MarkStale,
                RejectMark, RejectCommit, PublishRead, proseVars
  <2>2. CanonInv /\ ProseInv /\ ProseTypeOK /\ AcceptedStands /\ PackagesStand /\ ProposalsSaw
    BY DEF StoryInv, ProseInv
  <2>3. CASE \/ \E p \in Proposals, b \in Beats : \E g \in {p, AiGroup} : PrepareRead(c, p, b, g)
             \/ \E p \in Proposals, base \in 0..version : AcceptRead(c, p, base)
             \/ \E p \in Proposals : RejectMark(c, p)
             \/ \E k \in Packages : PublishRead(c, k)
    BY <2>1, <2>2, <2>3, PrepareReadDuties, AcceptReadDuties, RejectMarkDuties, PublishReadDuties
  <2>4. CASE PrepareWrite(c) \/ AcceptCommit(c) \/ MarkStale(c) \/ RejectCommit(c)
    BY <2>1, <2>2, <2>4, PrepareWriteDuties, AcceptCommitDuties, MarkStaleDuties,
       RejectCommitDuties
  <2> QED BY <1>2, <2>3, <2>4 DEF ProseNext
<1> QED BY <1>1, <1>2

LEMMA StoryStepInv == ASSUME StoryInv, [StoryNext]_storyVars PROVE StoryInv'
<1> USE CanonAssumption
<1>0. CanonInv /\ ProseInv /\ ProposalTypeOK /\ PackageTypeOK /\ ProseTypeOK
      /\ ArtifactsStand /\ EditsSpareProse
  BY DEF StoryInv, ProseInv, ProseTypeOK
<1>1. ASSUME NEW c \in Clients, EditNext(c) \/ FoundationNext(c), UNCHANGED proseVars
      PROVE  StoryInv'
  <2>1. Dutiful(c)
    BY <1>0, <1>1, EditDuties, FoundationDuties
  <2>2. ArtifactsStand'
    BY <1>0, <1>1, <2>1, ArtifactsStay DEF proseVars
  <2>3. Lasting
    BY <2>1 DEF Dutiful, Step
  <2>4. GuardsHold' /\ OutlineRestsOnLock'
    BY <1>0, <1>1, <2>3, GuardsStay, OutlineStays DEF CanonInv
  <2> QED BY <2>1, <2>2, <2>4, DutifulKeeps DEF StoryInv, CanonInv
<1>2. ASSUME NEW c \in Clients, ProseNext(c) PROVE StoryInv'
  <2>1. /\ Dutiful(c)
        /\ \A a \in artifacts' \ artifacts :
             package'[a[1]] = [status |-> "accepted", prose |-> a[2]] /\ Status(a[2])' = "accepted"
    BY <1>2, ProseDuties
  <2>2. ArtifactsStand'
    BY <1>0, <2>1, ArtifactsStay
  <2>3. Lasting
    BY <2>1 DEF Dutiful, Step
  <2>4. GuardsHold' /\ OutlineRestsOnLock'
    BY <1>0, <1>2, <2>3, ProseFrame, GuardsFrame
  <2> QED BY <2>1, <2>2, <2>4, DutifulKeeps DEF StoryInv, CanonInv
<1>3. ASSUME NEW k \in Packages, NEW p \in Proposals, PackageArrives(k, p) PROVE StoryInv'
  <2>1. Dutiful(NoHolder)
    BY <1>0, <1>3, PackageDuties
  <2>2. ArtifactsStand'
    BY <1>0, <1>3, <2>1, ArtifactsStay DEF PackageArrives
  <2>3. Lasting
    BY <2>1 DEF Dutiful, Step
  <2>4. GuardsHold' /\ OutlineRestsOnLock'
    BY <1>0, <1>3, <2>3, GuardsFrame DEF PackageArrives, Exists
  <2> QED BY <2>1, <2>2, <2>4, DutifulKeeps DEF StoryInv, CanonInv
<1>4. CASE UNCHANGED storyVars
  BY <1>4 DEF storyVars, StoryInv, CanonInv, CanonTypeOK, LogTypeOK, EntityTypeOK,
     FoundationTypeOK, RequestTypeOK, CanonIsSerial, GuardsHold, OutlineRestsOnLock, Permitted,
     Exists, Asks, ProseInv, ProseTypeOK, ProposalTypeOK, PackageTypeOK, AcceptedStands,
     EditsSpareProse, ProposalsSaw, Saw, RowsAreHeld, PackagesStand, ArtifactsStand, Status
<1> QED BY <1>1, <1>2, <1>3, <1>4 DEF StoryNext, CanonNext

\* What always holds of the story.
THEOREM StoryInvariant == StorySpec => []StoryInv
BY StoryInitInv, StoryStepInv, PTL DEF StorySpec

\* Requests prepare against a version read first, in any order; the applied change sets
\* were each requested on the canon they were applied to.
THEOREM CanonStaysSerial == StorySpec => []CanonIsSerial
<1>1. StoryInv => CanonIsSerial
  BY DEF StoryInv, CanonInv
<1> QED BY <1>1, StoryInvariant, PTL

\* No interleaving of edits with foundation requests leaves an outline node without a
\* locked foundation or without its parent.
THEOREM OutlineStaysOnLock == StorySpec => []OutlineRestsOnLock
<1>1. StoryInv => OutlineRestsOnLock
  BY DEF StoryInv, CanonInv
<1> QED BY <1>1, StoryInvariant, PTL

\* What is published was accepted, and each package once: the accepted status that
\* publishArtifact reads first is still there when it writes.
THEOREM PublishedIsAccepted == StorySpec => []PublishedWasAccepted
<1>1. StoryInv => PublishedWasAccepted
  <2> SUFFICES ASSUME ArtifactsStand, artifacts \subseteq Packages \X Proposals
               PROVE  PublishedWasAccepted
    BY DEF StoryInv, ProseInv, ProseTypeOK, PackageTypeOK
  <2>1. ASSUME NEW a \in artifacts, NEW b \in artifacts, a[1] = b[1] PROVE a = b
    <3>1. PICK k \in Packages, p \in Proposals : a = <<k, p>>
      OBVIOUS
    <3>2. PICK j \in Packages, q \in Proposals : b = <<j, q>>
      OBVIOUS
    <3>3. a[1] = k /\ a[2] = p /\ b[1] = j /\ b[2] = q
      BY <3>1, <3>2
    <3>4. package[k] = [status |-> "accepted", prose |-> p]
      BY <3>3 DEF ArtifactsStand
    <3>5. package[j] = [status |-> "accepted", prose |-> q]
      BY <3>3 DEF ArtifactsStand
    <3> QED BY <2>1, <3>1, <3>2, <3>3, <3>4, <3>5
  <2> QED BY <2>1 DEF ArtifactsStand, PublishedWasAccepted
<1> QED BY <1>1, StoryInvariant, PTL

-----------------------------------------------------------------------------
\* Which step changes a beat, and which one accepts a proposal.
LEMMA BeatChanges ==
  ASSUME CanonAssumption, ManuscriptAssumption, StoryInv, StoryNext,
         NEW b \in Beats, entity[b].accepted # NoProse, entity'[b] # entity[b]
  PROVE  entity'[b].accepted \notin {NoProse, entity[b].accepted}
<1>0. CanonInv /\ ProseInv /\ CanonTypeOK /\ AcceptedStands /\ b \in Entities
  BY DEF StoryInv, CanonInv, ProseInv, CanonAssumption, Entities
<1>1. ASSUME NEW c \in Clients, AcceptCommit(c)
      PROVE  entity'[b].accepted \notin {NoProse, entity[b].accepted}
  <2>0. ~Reads(c)
    BY DEF Reads
  <2>1. PICK p \in Proposals : AcceptGoes(c, p)
    BY <1>0, <1>1, <2>0, AcceptCases
  <2>2. entity'[b].accepted = p
    <3>1. PICK x : x = proposal[p].beat
      OBVIOUS
    <3>2. /\ x \in Entities /\ \A e \in Entities \ {x} : entity'[e] = entity[e]
          /\ entity'[x] = [revision |-> entity[x].revision + 1, accepted |-> p]
      BY <1>0, <2>1, <3>1, AcceptedEntity
    <3> QED BY <1>0, <3>2
  <2>3. p # NoProse
    BY DEF ManuscriptAssumption
  <2>4. entity[b].accepted # p
    BY <1>0, <2>1 DEF AcceptGoes, Settles, AcceptedStands
  <2> QED BY <2>2, <2>3, <2>4
<1>2. ASSUME NEW c \in Clients, EditNext(c) PROVE FALSE
  <2>1. /\ Asks(c, "edit", "commit") /\ StillOn(req[c].base) /\ EditApplies(req[c])
        /\ entity' = [entity EXCEPT ![req[c].entity] =
                        [@ EXCEPT !.revision = entity[req[c].entity].revision + 1]]
    BY <1>2 DEF EditNext, OutlineUpsert, CharacterUpsert, FactUpsert, RevealCreate, Requests,
                EditGuard, EditCommit, Refused
  <2>2. req[c].entity = b /\ req[c] \in EditRequest
    BY <1>0, <2>1, RequestByOp DEF CanonTypeOK, EntityTypeOK, Asks
  <2>3. req[c].create => entity[b].revision = Absent
    BY <2>1, <2>2 DEF EditApplies, Inserts, Exists
  <2>4. ~req[c].create => entity[b].accepted = NoProse
    BY <2>1, <2>2 DEF StoryInv, ProseInv, EditsSpareProse, Asks, StillOn
  <2> QED BY <1>0, <2>3, <2>4 DEF AcceptedStands
<1>3. ASSUME NEW c \in Clients, FoundationNext(c) PROVE FALSE
  BY <1>0, <1>3, FoundationTyped DEF CanonInv
<1> QED BY <1>1, <1>2, <1>3
        DEF StoryNext, CanonNext, ProseNext, PrepareRead, PrepareWrite, AcceptRead, MarkStale,
            RejectMark, RejectCommit, PublishRead, PublishWrite, PackageArrives

LEMMA AcceptSees ==
  ASSUME CanonAssumption, StoryInv, StoryNext, NEW p \in Proposals,
         Status(p) # "accepted", proposal'[p].status = "accepted"
  PROVE  /\ entity[proposal[p].beat].accepted = proposal[p].over
         /\ entity[proposal[p].beat].revision = proposal[p].revision
<1>0. CanonInv /\ ProseInv /\ CanonTypeOK /\ ProseTypeOK
  BY DEF StoryInv, CanonInv, ProseInv
<1>1. ASSUME NEW c \in Clients, AcceptCommit(c)
      PROVE  /\ entity[proposal[p].beat].accepted = proposal[p].over
             /\ entity[proposal[p].beat].revision = proposal[p].revision
  <2>0. ~Reads(c)
    BY DEF Reads, Status
  <2>1. PICK q \in Proposals : AcceptGoes(c, q)
    BY <1>0, <1>1, <2>0, AcceptCases
  <2>2. p = q
    BY <1>0, <2>1, AcceptedProposals
  <2> QED BY <1>0, <2>1, <2>2, AcceptedEntity
<1>2. ASSUME NEW c \in Clients, PrepareWrite(c) PROVE FALSE
  <2>1. PICK row, q : row.status = "pending" /\ proposal' = [proposal EXCEPT ![q] = row]
    <3>1. PICK row : row = [status |-> "pending", group |-> req[c].group, beat |-> req[c].beat,
                            revision |-> req[c].revision, over |-> req[c].over]
      OBVIOUS
    <3>2. row.status = "pending" /\ proposal' = [proposal EXCEPT ![req[c].proposal] = row]
      BY <1>2, <3>1 DEF PrepareWrite
    <3> QED BY <3>2
  <2> QED BY <1>0, <2>1 DEF Status, ProseTypeOK, ProposalTypeOK
<1>3. ASSUME NEW q, NEW status, status # "accepted", proposal' = Settled(q, status)
      PROVE  FALSE
  <2>1. p = q
    BY <1>0, <1>3 DEF Settled, Status, ProseTypeOK, ProposalTypeOK
  <2>2. proposal'[p] = [proposal[p] EXCEPT !.status = status]
    BY <1>0, <1>3, <2>1 DEF Settled, ProseTypeOK, ProposalTypeOK
  <2>3. proposal[p] \in {NoProposal} \cup Proposal
    BY <1>0 DEF ProseTypeOK, ProposalTypeOK
  <2>4. proposal'[p].status = status
    <3>1. CASE proposal[p] = NoProposal
      BY <2>2, <3>1 DEF NoProposal
    <3>2. CASE proposal[p] \in Proposal
      BY <2>2, <3>2 DEF Proposal
    <3> QED BY <2>3, <3>1, <3>2
  <2> QED BY <1>3, <2>4
<1>4. ASSUME NEW c \in Clients, MarkStale(c) \/ RejectCommit(c) PROVE FALSE
  BY <1>3, <1>4 DEF MarkStale, RejectCommit, Status
<1>5. proposal' # proposal
  BY DEF Status
<1> QED BY <1>1, <1>2, <1>4, <1>5
        DEF StoryNext, CanonNext, ProseNext, PrepareRead, AcceptRead, RejectMark, PublishRead,
            PublishWrite, PackageArrives, proseVars

\* An edit looked at its beat transactions before it commits, and still no prose that was
\* accepted in between is edited: accepting it has moved the canon on.
THEOREM AcceptedStaysUntouched == StorySpec => AcceptedBeatsUntouched
<1>1. StoryInv /\ [StoryNext]_storyVars
        => [\A b \in Beats :
              entity[b].accepted # NoProse /\ entity'[b] # entity[b]
                => entity'[b].accepted \notin {NoProse, entity[b].accepted}]_storyVars
  BY BeatChanges, CanonAssumption, ManuscriptAssumption
<1> QED BY <1>1, StoryInvariant, PTL DEF StorySpec, AcceptedBeatsUntouched

\* Accepting compares the revision named when the proposal was prepared, and that settles
\* which prose its author had seen.
THEOREM AcceptsOverSeen == StorySpec => AcceptsOverSeenProse
<1>1. StoryInv /\ [StoryNext]_storyVars
        => [\A p \in Proposals :
              (Status(p) # "accepted" /\ proposal'[p].status = "accepted")
                => /\ entity[proposal[p].beat].accepted = proposal[p].over
                   /\ entity[proposal[p].beat].revision = proposal[p].revision]_storyVars
  BY AcceptSees, CanonAssumption
<1> QED BY <1>1, StoryInvariant, PTL DEF StorySpec, AcceptsOverSeenProse
=============================================================================
