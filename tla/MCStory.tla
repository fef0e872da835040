------------------------------ MODULE MCStory ------------------------------
(* The specifications of what an author does, each on an instance of its   *)
(* own: the planning of a story, its prose, the editor of a draft, its     *)
(* snapshots, the sign-up and the sign-in of the author, and the rows and  *)
(* tokens of generation jobs.  part names the instance; the variables of   *)
(* the others keep their initial values.                                   *)
EXTENDS Manuscript, DraftEditing, AuthTokens, GenerationJob, TLC

CONSTANTS b1, ch, fact, twist

VARIABLE part
vars == <<storyVars, draftVars, authVars, jobVars, part>>

MCParent == [e \in Entities |-> IF e \in Beats THEN ch ELSE IF e \in Reveals THEN fact ELSE NoEntity]
\* Workers are named as the clients are, jobs as the proposals.
Symmetry == Permutations(Clients) \cup Permutations(Proposals) \cup Permutations(Tokens)

(* The canon once the foundation is locked and a chapter and a beat are     *)
(* planned.                                                                *)
Planned ==
  /\ version = 2 /\ log = <<[base |-> 0, change |-> ch], [base |-> 1, change |-> b1]>>
  /\ entity = [e \in Entities |->
       [revision |-> IF e \in Outline THEN 0 ELSE Absent, accepted |-> NoProse]]
  /\ foundation = [status |-> "locked", revision |-> 2, ready |-> TRUE,
                   concept |-> NoConcept]
  /\ req = [c \in Clients |-> Idle] /\ holder = NoHolder
  /\ ProseInit

(* The account once its address is verified by the first token.            *)
SignedUp ==
  /\ \E pw \in Passwords : account = [status |-> "active", password |-> pw]
  /\ \E t \in Tokens, s \in Sessions :
       /\ token = [u \in Tokens |-> IF u = t
            THEN [purpose |-> "verify_email", status |-> "consumed"]
            ELSE [purpose |-> "none", status |-> "none"]]
       /\ issuedTokens = <<t>> /\ mailed = {t}
       /\ session = [u \in Sessions |-> IF u = s
            THEN [status |-> "live", via |-> t, after |-> 0]
            ELSE [status |-> "none", via |-> "none", after |-> 0]]
  /\ limits = NoLimits /\ resets = <<>>
  /\ asking = [c \in Callers |-> Unasked]

MCInit ==
  /\ part \in {"planning", "prose", "editing", "checking", "signup", "signin", "jobs"}
  /\ IF part = "prose" THEN Planned ELSE ManuscriptInit
  /\ IF part = "signin" THEN SignedUp ELSE AuthInit
  /\ DraftInit /\ Init

StoryPart ==
  \/ part = "planning" /\ version < 3 /\ CanonNext /\ UNCHANGED proseVars
  \/ /\ part = "prose"
     /\ \/ /\ \E c \in Clients :
                \/ \E e \in Outline, r \in {NoRevision, 0, 1} : OutlineUpsert(c, e, r)
                \/ EditGuard(c) \/ EditCommit(c)
           /\ UNCHANGED proseVars
        \/ \E c \in Clients : ProseNext(c)
        \/ \E k \in Packages, p \in Proposals : PackageArrives(k, p)

DraftPart ==
  \E t \in Tabs :
    \/ part = "editing" /\ (EditorNext(t) \/ SeedNext(t))
    \/ part = "checking" /\ (SeedNext(t) \/ CheckNext(t))

AuthPart ==
  \/ /\ part = "signup"
     /\ \/ \E c \in Callers : SignUpNext(c) \/ IssueNext(c) \/ SessionNext(c)
        \/ TimeNext
  \/ /\ part = "signin"
     /\ \/ \E c \in Callers : SignInNext(c) \/ IssueNext(c) \/ SessionNext(c) \/ Dies(c)
        \/ CooldownEnds
        \/ \E s \in Sessions : Logout(s)

MCNext ==
  /\ UNCHANGED part
  /\ \/ StoryPart /\ UNCHANGED <<draftVars, authVars, jobVars>>
     \/ DraftPart /\ UNCHANGED <<storyVars, authVars, jobVars>>
     \/ AuthPart /\ UNCHANGED <<storyVars, draftVars, jobVars>>
     \/ /\ part = "jobs" /\ Next
        /\ UNCHANGED <<storyVars, draftVars, authVars>>

MCSpec == MCInit /\ [][MCNext]_vars

=============================================================================
