----------------------------- MODULE Manuscript -----------------------------
(***************************************************************************)
(* How prose becomes canon, and is published: proposals of prose for a     *)
(* beat, their groups, the acceptance of one (a change set of the canon),  *)
(* the rejection of the others, and the artifacts published from accepted  *)
(* prose.  Proposal p stands for its row, its pending change set and the   *)
(* immutable prose version prepared with it.                               *)
(*                                                                         *)
(* acceptProposal holds the lock of the project row from its first read to *)
(* its commit; preparing, rejecting, marking stale and publishing do not   *)
(* lock it, and meet it only at the rows they update.                      *)
(***************************************************************************)
EXTENDS Canon

CONSTANTS Proposals,  \* prepared in the lifetime of the model
          AiGroup,    \* the latest group of generated candidates
          Packages    \* artifact proposals

ASSUME ManuscriptAssumption == AiGroup \notin Proposals /\ NoProse \notin Proposals

VARIABLES proposal,   \* status, group, beat, the beat revision the accept
                      \* operation names, and the prose accepted when prepared
          group,      \* status and dependency manifest of a group
          package,    \* status and prose version of an artifact proposal
          artifacts   \* the published <<package, prose>>

proseVars == <<proposal, group, package, artifacts>>
storyVars == <<version, log, entity, foundation, req, holder,
               proposal, group, package, artifacts>>

Groups == Proposals \cup {AiGroup}

(* The manifest of a bundle lists every outline node by its bare id; the   *)
(* manifest of a proposal, one beat qualified by the project.  Their       *)
(* hashes never agree.                                                     *)
BundleManifest == -2
NoManifest == -3

NoProposal == [status |-> "none"]

ProseInit ==
  /\ proposal = [p \in Proposals |-> NoProposal]
  /\ group = [g \in Groups |-> IF g = AiGroup
                THEN [status |-> "pending", manifest |-> BundleManifest]
                ELSE [status |-> "none", manifest |-> NoManifest]]
  /\ package = [k \in Packages |-> [status |-> "none", prose |-> NoProse]]
  /\ artifacts = {}

ManuscriptInit == CanonInit /\ ProseInit

Status(p) == proposal[p].status
PendingIn(g) == {p \in Proposals : Status(p) = "pending" /\ proposal[p].group = g}

(* A row between its guarded UPDATE and the commit of its transaction.     *)
RowFree(p) == \A c \in Clients : ~(req[c].op = "reject" /\ req[c].proposal = p)

(* setStatus: only from the status it expects.                             *)
Settles(p) == Status(p) = "pending"
Settled(p, status) == [proposal EXCEPT ![p] = [@ EXCEPT !.status = status]]
GroupSettled(g, status) ==
  IF group[g].status = "pending" THEN [group EXCEPT ![g] = [@ EXCEPT !.status = status]]
  ELSE group

-----------------------------------------------------------------------------
(* prepareProseProposal: a user's prose gets a group of its own, a         *)
(* candidate joins the group it was generated in, whatever its status.     *)

Reserved == {req[c].proposal : c \in {d \in Clients : req[d].op = "prepare"}}

PrepareRead(c, p, b, g) ==
  /\ req[c] = Idle
  /\ Status(p) = "none" /\ p \notin Reserved
  /\ Exists(b) /\ g \in {p, AiGroup}
  /\ req' = [req EXCEPT ![c] =
       [op |-> "prepare", at |-> "write", proposal |-> p, beat |-> b, group |-> g,
        revision |-> entity[b].revision, over |-> entity[b].accepted]]
  /\ UNCHANGED <<version, log, entity, foundation, holder, proseVars>>

\* Mutant: the accept operation names the revision of the moment of the insert.
PrepareWriteLate(c) ==
  /\ Asks(c, "prepare", "write")
  /\ LET r == req[c] IN
     /\ proposal' = [proposal EXCEPT ![r.proposal] =
          [status |-> "pending", group |-> r.group, beat |-> r.beat,
           revision |-> entity[r.beat].revision, over |-> r.over]]
     /\ group' = IF r.group = AiGroup THEN group
                 ELSE [group EXCEPT ![r.group] =
                         [status |-> "pending", manifest |-> entity[r.beat].revision]]
  /\ Ends(c)
  /\ UNCHANGED <<version, log, entity, foundation, holder, package, artifacts>>

PrepareWrite(c) ==
  /\ Asks(c, "prepare", "write")
  /\ LET r == req[c] IN
     /\ proposal' = [proposal EXCEPT ![r.proposal] =
          [status |-> "pending", group |-> r.group, beat |-> r.beat,
           revision |-> r.revision, over |-> r.over]]
     /\ group' = IF r.group = AiGroup THEN group
                 ELSE [group EXCEPT ![r.group] =
                         [status |-> "pending", manifest |-> r.revision]]
  /\ Ends(c)
  /\ UNCHANGED <<version, log, entity, foundation, holder, package, artifacts>>

-----------------------------------------------------------------------------
(* acceptProposal.                                                         *)

(* The group's manifest against the live revision of the beat.             *)
DependencyCurrent(p) ==
  group[proposal[p].group].manifest = entity[proposal[p].beat].revision

(* The project is locked; base is the version the accept form was shown.   *)
(* A refusal for any reason but the version changes nothing: the mark      *)
(* needs_revalidation is rolled back with its transaction.                 *)
AcceptRead(c, p, base) ==
  /\ req[c] = Idle /\ holder = NoHolder /\ version < MaxCanon
  /\ Status(p) = "pending" /\ DependencyCurrent(p)
  /\ \/ /\ StillOn(base)
        /\ req' = [req EXCEPT ![c] =
             [op |-> "accept", at |-> "commit", proposal |-> p, base |-> base,
              siblings |-> PendingIn(proposal[p].group) \ {p}]]
        /\ holder' = c
     \/ /\ ~StillOn(base)
        /\ req' = [req EXCEPT ![c] = [op |-> "stale", at |-> "write", proposal |-> p]]
        /\ UNCHANGED holder
  /\ UNCHANGED <<version, log, entity, foundation, proseVars>>

(* setBeatAcceptedProse: a compare-and-set on the beat's revision.         *)
BeatAccepts(p) == entity[proposal[p].beat].revision = proposal[p].revision
BeatAccepted(p) ==
  [entity EXCEPT ![proposal[p].beat] =
     [revision |-> entity[proposal[p].beat].revision + 1, accepted |-> p]]

AcceptCommit(c) ==
  /\ Asks(c, "accept", "commit")
  /\ LET r == req[c]
         p == r.proposal
         superseded == {s \in r.siblings : Settles(s)} IN
     /\ \A s \in r.siblings \cup {p} : RowFree(s)
     /\ \/ /\ BeatAccepts(p) /\ Settles(p) /\ StillOn(r.base)
           /\ entity' = BeatAccepted(p)
           /\ Applied(r.base, p)
           /\ proposal' = [q \in Proposals |->
                IF q = p THEN [proposal[q] EXCEPT !.status = "accepted"]
                ELSE IF q \in superseded
                     THEN [proposal[q] EXCEPT !.status = "superseded"]
                     ELSE proposal[q]]
           /\ group' = GroupSettled(proposal[p].group, "accepted")
           /\ Ends(c)
        \/ /\ ~(BeatAccepts(p) /\ Settles(p) /\ StillOn(r.base))
           /\ req' = [req EXCEPT ![c] = [op |-> "stale", at |-> "write", proposal |-> p]]
           /\ UNCHANGED <<version, log, entity, proposal, group>>
  /\ holder' = NoHolder
  /\ UNCHANGED <<foundation, package, artifacts>>

(* acceptProposalAction: after a failed compare-and-set the proposal is    *)
(* marked in a transaction of its own.                                     *)
MarkStale(c) ==
  /\ Asks(c, "stale", "write")
  /\ RowFree(req[c].proposal)
  /\ proposal' = IF Settles(req[c].proposal) THEN Settled(req[c].proposal, "stale")
                 ELSE proposal
  /\ Ends(c)
  /\ UNCHANGED <<version, log, entity, foundation, holder, group, package, artifacts>>

-----------------------------------------------------------------------------
(* rejectProposal: the proposal is marked, and the group as well if no     *)
(* other pending proposal of it is committed at that moment.               *)
RejectMark(c, p) ==
  /\ req[c] = Idle
  /\ Status(p) = "pending" /\ RowFree(p)
  /\ req' = [req EXCEPT ![c] =
       [op |-> "reject", at |-> "commit", proposal |-> p,
        last |-> PendingIn(proposal[p].group) = {p}]]
  /\ UNCHANGED <<version, log, entity, foundation, holder, proseVars>>

RejectCommit(c) ==
  /\ Asks(c, "reject", "commit")
  /\ LET p == req[c].proposal IN
     /\ proposal' = Settled(p, "rejected")
     /\ group' = IF req[c].last THEN GroupSettled(proposal[p].group, "rejected")
                 ELSE group
  /\ Ends(c)
  /\ UNCHANGED <<version, log, entity, foundation, holder, package, artifacts>>

-----------------------------------------------------------------------------
(* publishArtifact.                                                        *)

(* The worker publishes a package made from a prose version.               *)
PackageArrives(k, p) ==
  /\ package[k].status = "none" /\ Status(p) # "none"
  /\ package' = [package EXCEPT ![k] = [status |-> "pending", prose |-> p]]
  /\ UNCHANGED <<version, log, entity, foundation, req, holder, proposal, group, artifacts>>

\* Mutant: any prose prepared for the beat is published.
IsPrepared(p) == entity[proposal[p].beat].accepted \in Proposals \cup {NoProse}
IsAccepted(p) == entity[proposal[p].beat].accepted = p

PublishRead(c, k) ==
  /\ req[c] = Idle
  /\ package[k].status = "pending" /\ IsAccepted(package[k].prose)
  /\ req' = [req EXCEPT ![c] = [op |-> "publish", at |-> "write", package |-> k]]
  /\ UNCHANGED <<version, log, entity, foundation, holder, proseVars>>

PublishWrite(c) ==
  /\ Asks(c, "publish", "write")
  /\ LET k == req[c].package IN
     IF package[k].status = "pending"
     THEN /\ package' = [package EXCEPT ![k] = [@ EXCEPT !.status = "accepted"]]
          /\ artifacts' = artifacts \cup {<<k, package[k].prose>>}
     ELSE UNCHANGED <<package, artifacts>>
  /\ Ends(c)
  /\ UNCHANGED <<version, log, entity, foundation, holder, proposal, group>>

ProseNext(c) ==
  \/ \E p \in Proposals, b \in Beats : \E g \in {p, AiGroup} : PrepareRead(c, p, b, g)
  \/ PrepareWrite(c)
  \/ \E p \in Proposals, base \in 0..version : AcceptRead(c, p, base)
  \/ AcceptCommit(c) \/ MarkStale(c)
  \/ \E p \in Proposals : RejectMark(c, p)
  \/ RejectCommit(c)
  \/ \E k \in Packages : PublishRead(c, k)
  \/ PublishWrite(c)

StoryNext ==
  \/ CanonNext /\ UNCHANGED proseVars
  \/ \E c \in Clients : ProseNext(c)
  \/ \E k \in Packages, p \in Proposals : PackageArrives(k, p)

StorySpec == ManuscriptInit /\ [][StoryNext]_storyVars

-----------------------------------------------------------------------------
(* A beat with accepted prose is changed by accepting other prose and by   *)
(* nothing else, though the edit that must not happen looked at the beat   *)
(* transactions before it commits.                                         *)
AcceptedBeatsUntouched ==
  [][\A b \in Beats :
       entity[b].accepted # NoProse /\ entity'[b] # entity[b]
         => entity'[b].accepted \notin {NoProse, entity[b].accepted}]_storyVars

(* Accepting a proposal never replaces prose its author had not seen       *)
(* accepted when preparing it, and never comes over an edit of the beat    *)
(* made since.                                                             *)
AcceptsOverSeenProse ==
  [][\A p \in Proposals :
       (Status(p) # "accepted" /\ proposal'[p].status = "accepted")
         => /\ entity[proposal[p].beat].accepted = proposal[p].over
            /\ entity[proposal[p].beat].revision = proposal[p].revision]_storyVars

(* What is published was accepted prose, and a package is published once,  *)
(* from one prose version.                                                 *)
PublishedWasAccepted ==
  \A a \in artifacts :
    /\ Status(a[2]) = "accepted"
    /\ \A b \in artifacts : a[1] = b[1] => a = b
=============================================================================
