--------------------------- MODULE GenerationPanel ---------------------------
(***************************************************************************)
(* A page of the author's browser on which a paid generation is asked for, *)
(* confirmed, followed and cancelled.  The page is rendered by the server  *)
(* with the job it finds; the panel on it keeps the answers of two forms,  *)
(* and the job panel polls the server for the job it shows.  Meanwhile     *)
(* workers run the jobs and another tab starts more of them.               *)
(*                                                                         *)
(* A call is sent, served and answered in three steps, in any order with   *)
(* the rest, and a read may fail.  React applies an answer and runs the    *)
(* effects it causes in one step.  Jobs are rows of the server that are    *)
(* never deleted, so a poll by reference finds its job or fails.           *)
(***************************************************************************)
EXTENDS Integers, Sequences, FiniteSets, FiniteSetsExt

CONSTANTS
  Surfaces,   \* the pages checked
  MaxJobs,    \* bound on the jobs ever started
  MaxQuotes   \* bound on the quotes the page is given

ASSUME PanelAssumption ==
  /\ Surfaces \subseteq {"beat", "concept", "repair", "publish"}
  /\ {MaxJobs, MaxQuotes} \subseteq Nat

VARIABLES
  surface,  \* the page
  rows,     \* the generation jobs of its kind, and the one that ended last
  offer,    \* the quotes issued to the page, and whether the last is usable
  page,     \* the job the server rendered the page with, and a refresh of it
  forms,    \* the answers of the two forms, and the call of one of them
  panel     \* the job panel: where it is mounted, what it shows, its calls

panelVars == <<surface, rows, offer, page, forms, panel>>

NoView == [job |-> 0, phase |-> "none", cancel |-> FALSE]
NoCall == [at |-> "none", view |-> NoView]
Sent == [NoCall EXCEPT !.at = "sent"]
Read(view) == [at |-> "read", view |-> view]

Nonterminal(phase) == phase \in {"queued", "running"}
Ended(view) == view.job # 0 /\ ~Nonterminal(view.phase)

ViewOf(j) == [job |-> j, phase |-> rows.jobs[j].phase, cancel |-> rows.jobs[j].cancel]
ActiveJobs == {j \in DOMAIN rows.jobs : Nonterminal(rows.jobs[j].phase)}

(* The lookup without a reference: one active job, else the job that ended *)
(* last; several active jobs are ambiguous.                                *)
Lookup ==
  IF ActiveJobs = {} THEN IF rows.last = 0 THEN NoCall ELSE Read(ViewOf(rows.last))
  ELSE IF Cardinality(ActiveJobs) = 1 THEN Read(ViewOf(CHOOSE j \in ActiveJobs : TRUE))
  ELSE [NoCall EXCEPT !.at = "ambiguous"]

(* The page of the beats looks for jobs of the preview harness, of which   *)
(* there are none; the others for the jobs their panel starts.             *)
PageLookup == IF surface = "beat" THEN NoView ELSE Lookup.view

-----------------------------------------------------------------------------
(* What each panel renders of the page's job p and the answers f: the job  *)
(* panel, at a place of the tree, with the view it is mounted with; a card *)
(* with a confirmation, or a form that asks for a quote.                   *)
Show(place, view, start, confirm) ==
  [place |-> place, view |-> view, start |-> start, confirm |-> confirm]
JobAt(place, view) == Show(place, view, FALSE, FALSE)
Card(requote, confirm) == Show("none", NoView, requote, confirm)
Start == Show("none", NoView, TRUE, FALSE)
Answered(form, kinds) == form.kind \in kinds

BeatPanel(p, f) ==
  CASE p.job # 0 -> IF Ended(p) THEN Show("nested", p, TRUE, FALSE) ELSE JobAt("root", p)
    [] p.job = 0 /\ Answered(f.quote, {"active"}) -> JobAt("root", f.quote.view)
    [] p.job = 0 /\ ~Answered(f.quote, {"active"}) /\ Answered(f.confirm, {"started"}) ->
         JobAt("root", f.confirm.view)
    [] OTHER -> IF Answered(f.quote, {"quoted"})
                THEN Card(Answered(f.confirm, {"expired", "refused"}),
                          ~Answered(f.confirm, {"expired", "refused"}))
                ELSE Start

(* The answers of the other panels come in another order, and a refused    *)
(* confirmation leaves the card as it is.                                  *)
Unstarted(f) ==
  CASE Answered(f.confirm, {"started"}) -> JobAt("root", f.confirm.view)
    [] Answered(f.quote, {"active"}) /\ ~Answered(f.confirm, {"started"}) ->
         JobAt("root", f.quote.view)
    [] OTHER -> IF Answered(f.quote, {"quoted"}) THEN Card(FALSE, TRUE) ELSE Start

ConceptPanel(p, f) ==
  IF p.job = 0 THEN Unstarted(f)
  ELSE IF Ended(p) THEN Show("nested", p, TRUE, FALSE) ELSE JobAt("root", p)
RepairPanel(p, f) == IF p.job = 0 THEN Unstarted(f) ELSE JobAt("root", p)
PublishPanel(p, f) == IF p.job = 0 THEN Unstarted(f) ELSE JobAt("nested", p)

Screen(p, f) ==
  CASE surface = "beat"    -> BeatPanel(p, f)
    [] surface = "concept" -> ConceptPanel(p, f)
    [] surface = "repair"  -> RepairPanel(p, f)
    [] surface = "publish" -> PublishPanel(p, f)
Shown == Screen(page.job, forms)

-----------------------------------------------------------------------------
(* The job panel.  Two loops at most are told apart; pollRef is shared by  *)
(* the runs of the effect.                                                 *)
Loops == {1, 2}
NoLoops == [l \in Loops |-> NoCall]
Waiting == [NoCall EXCEPT !.at = "timer"]
Unmounted == [place |-> "none", view |-> NoView, cancelled |-> FALSE, loops |-> NoLoops,
              cancel |-> NoCall]

(* Starts a loop beside those whose calls are under way.                   *)
StartLoop(pn) ==
  LET free == {l \in Loops : pn.loops[l] = NoCall}
  IN  IF free = {} THEN pn ELSE [pn EXCEPT !.loops[Min(free)] = Waiting]

\* Mutant: the cleanup clears the timer, not the call under way.
StopTimers(pn) ==
  [pn EXCEPT !.loops = [l \in Loops |-> IF @[l] = Waiting THEN NoCall ELSE @[l]]]

(* The cleanup: calls go on, to find themselves cancelled.                 *)
StopLoops(pn) ==
  [pn EXCEPT !.cancelled = TRUE,
             !.loops = [l \in Loops |-> IF @[l] = Waiting THEN NoCall ELSE @[l]]]

(* setJob, and the effect that depends on whether the job is nonterminal.  *)
WithView(pn, view) ==
  LET was == Nonterminal(pn.view.phase)
      new == [pn EXCEPT !.view = view]
  IN  CASE was /\ ~Nonterminal(view.phase) -> StopLoops(new)
        [] ~was /\ Nonterminal(view.phase) -> StartLoop([new EXCEPT !.cancelled = FALSE])
        [] OTHER -> new

(* A job panel that stays in its place keeps its state, whatever view it   *)
(* is rendered with; in another place it is mounted anew.                  *)
Rendered(p, f) ==
  LET s == Screen(p, f)
  IN  IF s.place = panel.place THEN panel
      ELSE IF s.place = "none" THEN Unmounted
      ELSE WithView([Unmounted EXCEPT !.place = s.place], s.view)

NoForms ==
  [quote |-> [kind |-> "none", view |-> NoView], confirm |-> [kind |-> "none", view |-> NoView],
   pending |-> "none", answer |-> NoCall]

PanelInit ==
  /\ surface \in Surfaces
  /\ rows = [jobs |-> <<>>, last |-> 0]
  /\ offer = [issued |-> 0, usable |-> FALSE]
  /\ page = [job |-> NoView, refresh |-> NoCall]
  /\ forms = NoForms /\ panel = Unmounted

-----------------------------------------------------------------------------
(* Workers, and the author's other tabs.                                   *)
SetJob(j, phase, cancel) ==
  rows' = [rows EXCEPT !.jobs[j] = [phase |-> phase, cancel |-> cancel],
                       !.last = IF Nonterminal(phase) THEN @ ELSE j]

Work ==
  /\ \E j \in ActiveJobs :
       LET job == rows.jobs[j]
       IN  \/ job.phase = "queued" /\ SetJob(j, "running", job.cancel)
           \/ job.phase = "running" /\ SetJob(j, IF job.cancel THEN "cancelled" ELSE "succeeded",
                                              job.cancel)
  /\ UNCHANGED <<surface, offer, page, forms, panel>>

QueueJob ==
  rows' = [rows EXCEPT !.jobs = Append(@, [phase |-> "queued", cancel |-> FALSE])]

ElsewhereStarts ==
  /\ Len(rows.jobs) < MaxJobs /\ QueueJob
  /\ UNCHANGED <<surface, offer, page, forms, panel>>

QuoteExpires ==
  /\ offer.usable /\ offer' = [offer EXCEPT !.usable = FALSE]
  /\ UNCHANGED <<surface, rows, page, forms, panel>>

-----------------------------------------------------------------------------
(* The page, loaded again or refreshed in place.                           *)
LoadPage ==
  /\ forms' = NoForms
  /\ page' = [job |-> PageLookup, refresh |-> NoCall]
  /\ panel' = LET s == Screen(PageLookup, NoForms)
              IN  WithView([Unmounted EXCEPT !.place = s.place], s.view)
  /\ UNCHANGED <<surface, rows, offer>>

ServeRefresh ==
  /\ page.refresh = Sent
  /\ page' = [page EXCEPT !.refresh = Read(PageLookup)]
  /\ UNCHANGED <<surface, rows, offer, forms, panel>>

Refresh ==
  /\ page.refresh.at = "read"
  /\ page' = [job |-> page.refresh.view, refresh |-> NoCall]
  /\ panel' = Rendered(page.refresh.view, forms)
  /\ UNCHANGED <<surface, rows, offer, forms>>

-----------------------------------------------------------------------------
(* The two forms.                                                          *)
Submit(form) ==
  /\ forms.pending = "none"
  /\ forms' = [forms EXCEPT !.pending = form, !.answer = Sent]
  /\ UNCHANGED <<surface, rows, offer, page, panel>>

AskQuoteForm == Shown.start /\ Submit("quote")
ConfirmQuoteForm == Shown.confirm /\ Submit("confirm")

Served(kind, view) ==
  forms' = [forms EXCEPT !.answer = [at |-> kind, view |-> view]]

(* The server shows the active job instead of a quote, or fails.           *)
ServeQuote ==
  /\ forms.pending = "quote" /\ forms.answer = Sent
  /\ \/ Served("error", NoView) /\ UNCHANGED offer
     \/ /\ Cardinality(ActiveJobs) > 1
        /\ Served("ambiguous", NoView) /\ UNCHANGED offer
     \/ /\ Cardinality(ActiveJobs) = 1
        /\ Served("active", Lookup.view) /\ UNCHANGED offer
     \/ /\ ActiveJobs = {} /\ offer.issued < MaxQuotes
        /\ Served("quoted", NoView) /\ offer' = [issued |-> offer.issued + 1, usable |-> TRUE]
  /\ UNCHANGED <<surface, rows, page, panel>>

(* A quote that is usable starts a job, whatever else is running, unless   *)
(* the balance or the plan changed.                                        *)
ServeConfirm ==
  /\ forms.pending = "confirm" /\ forms.answer = Sent
  /\ \/ Served("refused", NoView) /\ UNCHANGED <<rows, offer>>
     \/ /\ ~offer.usable
        /\ Served("expired", NoView) /\ UNCHANGED <<rows, offer>>
     \/ /\ offer.usable /\ Len(rows.jobs) < MaxJobs
        /\ offer' = [offer EXCEPT !.usable = FALSE]
        /\ QueueJob
        /\ Served("started", [job |-> Len(rows.jobs) + 1, phase |-> "queued", cancel |-> FALSE])
  /\ UNCHANGED <<surface, page, panel>>

(* The action of the beats reads the job it started once more.              *)
StartedIsRead ==
  /\ surface = "beat" /\ forms.answer.at = "started"
  /\ Served("started", ViewOf(forms.answer.view.job))
  /\ UNCHANGED <<surface, rows, offer, page, panel>>

AnswerForm(form) ==
  /\ forms.pending = form /\ forms.answer \notin {NoCall, Sent}
  /\ LET answer == [kind |-> forms.answer.at, view |-> forms.answer.view]
         done == [forms EXCEPT !.pending = "none", !.answer = NoCall]
         next == IF form = "quote" THEN [done EXCEPT !.quote = answer]
                                   ELSE [done EXCEPT !.confirm = answer]
     IN  forms' = next /\ panel' = Rendered(page.job, next)
  /\ UNCHANGED <<surface, rows, offer, page>>

-----------------------------------------------------------------------------
(* Polling.                                                                *)
Refreshing(view) == IF Ended(view) THEN [page EXCEPT !.refresh = Sent] ELSE page

Poll(l) ==
  /\ panel.loops[l] = Waiting
  /\ panel' = [panel EXCEPT !.loops[l] = IF panel.cancelled THEN NoCall ELSE Sent]
  /\ UNCHANGED <<surface, rows, offer, page, forms>>

ServePoll(l) ==
  /\ panel.loops[l] = Sent
  /\ \/ panel' = [panel EXCEPT !.loops[l] = Read(ViewOf(panel.view.job))]
     \/ panel' = [panel EXCEPT !.loops[l] = [NoCall EXCEPT !.at = "failed"]]
  /\ UNCHANGED <<surface, rows, offer, page, forms>>

(* A loop that was not cancelled takes the answer, and goes on unless the  *)
(* job ended; a failed read is tried again.                                *)
PollAnswered(l) ==
  LET call == panel.loops[l]
      loop == IF panel.cancelled \/ Ended(call.view) THEN NoCall ELSE Waiting
      next == [panel EXCEPT !.loops[l] = loop]
  IN  /\ call.at \in {"read", "failed"}
      /\ IF panel.cancelled \/ call.at = "failed" THEN panel' = next /\ UNCHANGED page
         ELSE panel' = WithView(next, call.view) /\ page' = Refreshing(call.view)
      /\ UNCHANGED <<surface, rows, offer, forms>>

-----------------------------------------------------------------------------
(* Cancellation: of the project's active job, then the shown one is read.  *)
CancelConfirmed ==
  /\ Nonterminal(panel.view.phase) /\ ~panel.view.cancel /\ panel.cancel = NoCall
  /\ panel' = [panel EXCEPT !.cancel = Sent]
  /\ UNCHANGED <<surface, rows, offer, page, forms>>

ServeCancel ==
  /\ panel.cancel = Sent
  /\ IF Cardinality(ActiveJobs) = 1
     THEN /\ \E j \in ActiveJobs :
               SetJob(j, IF rows.jobs[j].phase = "queued" THEN "cancelled" ELSE "running", TRUE)
          /\ panel' = [panel EXCEPT !.cancel.at = "reading"]
     ELSE panel' = [panel EXCEPT !.cancel = NoCall] /\ UNCHANGED rows
  /\ UNCHANGED <<surface, offer, page, forms>>

ServeReread ==
  /\ panel.cancel.at = "reading"
  /\ \/ panel' = [panel EXCEPT !.cancel = Read(ViewOf(panel.view.job))]
     \/ panel' = [panel EXCEPT !.cancel = NoCall]
  /\ UNCHANGED <<surface, rows, offer, page, forms>>

CancelAnswered ==
  /\ panel.cancel.at = "read"
  /\ panel' = WithView([panel EXCEPT !.cancel = NoCall], panel.cancel.view)
  /\ page' = Refreshing(panel.cancel.view)
  /\ UNCHANGED <<surface, rows, offer, forms>>

-----------------------------------------------------------------------------
PanelNext ==
  \/ Work \/ ElsewhereStarts \/ QuoteExpires
  \/ LoadPage \/ ServeRefresh \/ Refresh
  \/ AskQuoteForm \/ ConfirmQuoteForm \/ ServeQuote \/ ServeConfirm \/ StartedIsRead
  \/ AnswerForm("quote") \/ AnswerForm("confirm")
  \/ \E l \in Loops : Poll(l) \/ ServePoll(l) \/ PollAnswered(l)
  \/ CancelConfirmed \/ ServeCancel \/ ServeReread \/ CancelAnswered

PanelSpec == PanelInit /\ [][PanelNext]_panelVars

-----------------------------------------------------------------------------
(* The job a panel shows as running is asked for by one loop of polls: no  *)
(* order of the answers of polls, cancellations and refreshes leaves a     *)
(* running view that nothing will ever replace, or two loops asking for    *)
(* it, though all runs of the effect share one pollRef.                    *)
RunningJobIsPolled ==
  Nonterminal(panel.view.phase) =>
    /\ ~panel.cancelled
    /\ Cardinality({l \in Loops : panel.loops[l] # NoCall}) = 1

(* "You can leave this page and come back; the status is restored by       *)
(* itself": a page loaded while one job of its kind is active shows it.    *)
LoadRecoversJob ==
  [][LoadPage /\ Cardinality(ActiveJobs) = 1 => panel'.view.job \in ActiveJobs]_panelVars
=============================================================================
