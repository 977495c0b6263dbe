-------------------------- MODULE FeedbackCapture --------------------------
(***************************************************************************)
(* Feedback rows and everything that writes them: process_reaction of      *)
(* workers/feedback_worker.py, a Celery task per comment event that copies *)
(* the 👍 and 👎 it finds on GitHub, and FeedbackViewSet of api/views.py,  *)
(* where any user may add, change and delete rows.  Django runs in         *)
(* autocommit mode, so a step is one query (or one call to GitHub), and    *)
(* get_or_create is up to three: SELECT, INSERT, and SELECT again when the *)
(* unique constraint of the table refuses the INSERT.                      *)
(*                                                                         *)
(* The reactions on GitHub, which people add and withdraw at any time, are *)
(* records with growing ids; the API lists them in the order of their ids, *)
(* a page at a time, and the client reads the first page.                  *)
(***************************************************************************)
EXTENDS Naturals, FiniteSets, PyExceptions

CONSTANTS
  Comment,              \* comments Sentinel posted on pull requests
  Login,                \* GitHub users who react, and users of the API
  NoLogin,              \* the empty login, of a reaction whose user GitHub does not name
  Task,                 \* process_reaction messages: one per event, and per repetition
  CommentOf,            \* comment_id of each message
  Client,               \* API requests in progress at the same time
  Page,                 \* reactions on the first page of GitHub's answer
  MaxReactions,         \* bound: reactions ever added on GitHub
  MaxRequests           \* bound: POST and PATCH requests to the API

ASSUME FeedbackAssumption ==
  /\ NoLogin \notin Login
  /\ CommentOf \in [Task -> Comment]
  /\ Page \in Nat \ {0}
  /\ MaxReactions \in Nat /\ MaxRequests \in Nat

Vote == {"+1", "-1"}
Content == Vote \cup {"heart"}          \* "heart" for every other emoji

\* A reaction as GitHub lists it, and what a Feedback row is for the constraint.
Reactor == Login \cup {NoLogin}
Reaction == [id : Nat, login : Reactor, content : Content]
Entry == [comment : Comment, login : Login, reaction : Vote]

VARIABLES
  reacted,              \* reactions on GitHub, per comment
  reactions,            \* how many were ever added: the last id
  stored,               \* comments whose Comment row is in the database
  rows,                 \* Feedback rows: their id and Entry
  nextId,               \* the sequence of the table's primary key
  pc,                   \* where each task is
  todo,                 \* reactions its loop has not handled yet
  seen,                 \* history: those it was given
  form,                 \* what each API request is about to write
  requests,             \* how many requests there were
  touched               \* history: pairs of comment and login somebody changed

github == <<reacted, reactions>>
database == <<stored, rows, nextId>>
tasks == <<pc, todo, seen>>
api == <<form, requests>>
vars == <<github, database, tasks, api, touched>>

Busy == {"fetch", "select", "insert", "reselect"}
Ended == {"completed", "skipped", "error", "raised"}

\* An API request in progress: nothing, an INSERT or an UPDATE of a row.
Idle == [op |-> "none"]
Forms == {Idle} \cup [op : {"insert"}, entry : Entry]
                \cup [op : {"update"}, id : Nat, entry : Entry]

TypeOK ==
  /\ reacted \in [Comment -> SUBSET Reaction] /\ reactions \in Nat
  /\ stored \subseteq Comment
  /\ rows \subseteq [id : Nat, entry : Entry] /\ nextId \in Nat
  /\ pc \in [Task -> {"queued"} \cup Busy \cup Ended]
  /\ todo \in [Task -> SUBSET Reaction]
  /\ seen \in [Task -> SUBSET Reaction]
  /\ form \in [Client -> Forms] /\ requests \in Nat
  /\ touched \subseteq Comment \X Reactor

Init ==
  /\ reacted = [c \in Comment |-> {}] /\ reactions = 0
  /\ stored = {} /\ rows = {} /\ nextId = 1
  /\ pc = [t \in Task |-> "queued"]
  /\ todo = [t \in Task |-> {}]
  /\ seen = [t \in Task |-> {}]
  /\ form = [k \in Client |-> Idle] /\ requests = 0
  /\ touched = {}

-----------------------------------------------------------------------------
(* The surroundings: people on GitHub, and the review task.                 *)

React(c, l, x) ==
  /\ reactions < MaxReactions
  /\ \A e \in reacted[c] : ~(e.login = l /\ e.content = x)
  /\ reactions' = reactions + 1
  /\ reacted' = [reacted EXCEPT ![c] = @ \cup {[id |-> reactions + 1, login |-> l, content |-> x]}]
  /\ UNCHANGED <<database, tasks, api, touched>>

Withdraw(c, e) ==
  /\ reacted' = [reacted EXCEPT ![c] = @ \ {e}]
  /\ touched' = touched \cup {<<c, e.login>>}
  /\ UNCHANGED <<reactions, database, tasks, api>>

\* PostCommentsStage stores the row some time after GitHub announced the comment.
StoreComment(c) ==
  /\ c \notin stored
  /\ stored' = stored \cup {c}
  /\ UNCHANGED <<github, rows, nextId, tasks, api, touched>>

-----------------------------------------------------------------------------
(* process_reaction.                                                        *)

Goto(t, from, to) == pc[t] = from /\ pc' = [pc EXCEPT ![t] = to]
Forget(t) == todo' = [todo EXCEPT ![t] = {}] /\ seen' = [seen EXCEPT ![t] = {}]

\* Rows of the task's comment by one user: what get_or_create looks for.
VotesOf(c, l) == {f \in rows : f.entry.comment = c /\ f.entry.login = l}

\* Comment.objects.get(github_comment_id=comment_id)
FindComment(t) ==
  /\ Goto(t, "queued", IF CommentOf[t] \in stored THEN "fetch" ELSE "skipped")
  /\ UNCHANGED <<github, database, todo, seen, api, touched>>

FirstPage(c) == {e \in reacted[c] : Cardinality({g \in reacted[c] : g.id < e.id}) < Page}
\* The loop passes over every other emoji, and over a vote without a login.
Votes(es) == {e \in es : e.content \in Vote /\ e.login # NoLogin}

\* get_comment_reactions
Fetch(t) ==
  /\ Goto(t, "fetch", "select")
  /\ todo' = [todo EXCEPT ![t] = Votes(FirstPage(CommentOf[t]))]
  /\ seen' = [seen EXCEPT ![t] = Votes(FirstPage(CommentOf[t]))]
  /\ UNCHANGED <<github, database, api, touched>>

\* An error status or a timeout of httpx becomes an empty list in the client, an
\* OSError or RuntimeError the result "error"; the rest leaves the task.
FetchRaises == {"HTTPStatusError", "HttpTimeout", "ConnectionError", "OSError",
                "RuntimeError", "TransportError", "KeyError", "ValueError"}
FetchFails(t) ==
  \E e \in FetchRaises :
    /\ Goto(t, "fetch", IF e \in {"HTTPStatusError", "HttpTimeout"} THEN "select"
                        ELSE IF Caught(e, {"OSError", "RuntimeError"}) THEN "error"
                        ELSE "raised")
    /\ Forget(t)
    /\ UNCHANGED <<github, database, api, touched>>

\* The reaction the loop is at: GitHub lists them by id.
Current(t, e) == e \in todo[t] /\ \A g \in todo[t] : e.id <= g.id
Handled(t, e) == todo' = [todo EXCEPT ![t] = @ \ {e}]

\* Mutant of Select: the reaction is part of what is looked for, as in the constraint.
Select_WithReaction(t) ==
  /\ pc[t] = "select" /\ todo[t] # {}
  /\ \E e \in todo[t] :
       /\ Current(t, e)
       /\ IF \E f \in rows : f.entry = [comment |-> CommentOf[t], login |-> e.login,
                                        reaction |-> e.content]
          THEN Handled(t, e) /\ UNCHANGED pc
          ELSE Goto(t, "select", "insert") /\ UNCHANGED todo
  /\ UNCHANGED <<github, database, seen, api, touched>>

\* get(comment, reactor_login): one row is enough; two raise MultipleObjectsReturned,
\* which no clause of the task names.
Select(t) ==
  /\ pc[t] = "select" /\ todo[t] # {}
  /\ \E e \in todo[t] :
       /\ Current(t, e)
       /\ LET found == VotesOf(CommentOf[t], e.login)
          IN  \/ found = {} /\ Goto(t, "select", "insert") /\ UNCHANGED todo
              \/ /\ \E f \in found : found = {f}
                 /\ Handled(t, e) /\ UNCHANGED pc
              \/ /\ \E f, g \in found : f # g
                 /\ Goto(t, "select", "raised") /\ UNCHANGED todo
  /\ UNCHANGED <<github, database, seen, api, touched>>

\* The loop is over.
Complete(t) ==
  /\ todo[t] = {} /\ Goto(t, "select", "completed")
  /\ UNCHANGED <<github, database, todo, seen, api, touched>>

EntryOf(t, e) == [comment |-> CommentOf[t], login |-> e.login, reaction |-> e.content]
InTable(x) == \E f \in rows : f.entry = x
Inserted(x) == rows \cup {[id |-> nextId, entry |-> x]}

\* Mutant of Insert: a failed query is logged and the loop goes on.
Insert_ErrorsPassed(t) ==
  /\ pc[t] = "insert"
  /\ \E e \in todo[t] :
       /\ Current(t, e) /\ Handled(t, e) /\ Goto(t, "insert", "select")
       /\ \/ ~InTable(EntryOf(t, e)) /\ rows' = Inserted(EntryOf(t, e)) /\ nextId' = nextId + 1
          \/ UNCHANGED <<rows, nextId>>
  /\ UNCHANGED <<github, stored, seen, api, touched>>

\* create(...): uq_feedback_comment_reactor_reaction refuses a row that is there.
Insert(t) ==
  /\ pc[t] = "insert"
  /\ \E e \in todo[t] :
       /\ Current(t, e)
       /\ IF InTable(EntryOf(t, e))
          THEN Goto(t, "insert", "reselect") /\ UNCHANGED <<todo, rows, nextId>>
          ELSE /\ Handled(t, e) /\ Goto(t, "insert", "select")
               /\ rows' = Inserted(EntryOf(t, e)) /\ nextId' = nextId + 1
  /\ UNCHANGED <<github, stored, seen, api, touched>>

\* Mutant of Reselect: the INSERT is tried again until the row is found.
Reselect_Retries(t) ==
  /\ pc[t] = "reselect"
  /\ \E e \in todo[t] :
       /\ Current(t, e)
       /\ IF \E f \in rows : VotesOf(CommentOf[t], e.login) = {f}
          THEN Handled(t, e) /\ Goto(t, "reselect", "select")
          ELSE Goto(t, "reselect", "insert") /\ UNCHANGED todo
  /\ UNCHANGED <<github, database, seen, api, touched>>

\* After the IntegrityError get_or_create looks again: no row raises the error again.
Reselect(t) ==
  /\ pc[t] = "reselect"
  /\ \E e \in todo[t] :
       /\ Current(t, e)
       /\ IF \E f \in rows : VotesOf(CommentOf[t], e.login) = {f}
          THEN Handled(t, e) /\ Goto(t, "reselect", "select")
          ELSE Goto(t, "reselect", "raised") /\ UNCHANGED todo
  /\ UNCHANGED <<github, database, seen, api, touched>>

\* The task ends with nothing more done: a query fails, a reaction has no user, the
\* soft time limit strikes (no retry, as the task names no class for one), its process
\* dies, or the worker does not know the task and discards it.  (A message that comes
\* back after a crash of the worker is one more task for the same comment.)
TaskEndsEarly(t) ==
  /\ pc[t] \in Busy \cup {"queued"}
  /\ pc' = [pc EXCEPT ![t] = "raised"]
  /\ Forget(t)
  /\ UNCHANGED <<github, database, api, touched>>

-----------------------------------------------------------------------------
(* FeedbackViewSet: a request validates against the table, then writes.     *)

Begin(k, f) ==
  /\ form[k] = Idle /\ requests < MaxRequests
  /\ form' = [form EXCEPT ![k] = f]
  /\ requests' = requests + 1
  /\ UNCHANGED <<github, database, tasks, touched>>

\* POST.  The serializer looks for such a row only when the request names a reactor;
\* without one it is saved under the user's own name, unchecked.
Post(k, x) ==
  /\ x.comment \in stored
  /\ Begin(k, [op |-> "insert", entry |-> x])

\* PUT and PATCH: the row is read, and the other rows are looked through.
Patch(k, r, x) ==
  /\ x.comment \in stored
  /\ ~\E g \in rows \ {r} : g.entry = x
  /\ Begin(k, [op |-> "update", id |-> r.id, entry |-> x])

Pair(x) == <<x.comment, x.login>>

ApiInsert(k) ==
  /\ form[k].op = "insert"
  /\ form' = [form EXCEPT ![k] = Idle]
  /\ \/ InTable(form[k].entry) /\ UNCHANGED <<rows, nextId, touched>>
     \/ /\ ~InTable(form[k].entry)
        /\ rows' = Inserted(form[k].entry) /\ nextId' = nextId + 1
        /\ touched' = touched \cup {Pair(form[k].entry)}
  /\ UNCHANGED <<github, stored, tasks, requests>>

\* save() updates the row of that id; when no row has it any more, it inserts one.
ApiUpdate(k) ==
  /\ form[k].op = "update"
  /\ form' = [form EXCEPT ![k] = Idle]
  /\ LET i == form[k].id
         x == form[k].entry
     IN  \/ /\ \E g \in rows : g.id # i /\ g.entry = x
            /\ UNCHANGED <<rows, touched>>
         \/ /\ ~\E g \in rows : g.id # i /\ g.entry = x
            /\ rows' = {g \in rows : g.id # i} \cup {[id |-> i, entry |-> x]}
            /\ touched' = touched \cup {Pair(x)} \cup {Pair(g.entry) : g \in {h \in rows : h.id = i}}
  /\ UNCHANGED <<github, stored, nextId, tasks, requests>>

Delete(r) ==
  /\ rows' = rows \ {r}
  /\ touched' = touched \cup {Pair(r.entry)}
  /\ UNCHANGED <<github, stored, nextId, tasks, api>>

-----------------------------------------------------------------------------
Progress(t) == FindComment(t) \/ Fetch(t) \/ Select(t) \/ Complete(t) \/ Insert(t) \/ Reselect(t)
Fault(t) == FetchFails(t) \/ TaskEndsEarly(t)

Api ==
  \/ \E k \in Client :
       \/ ApiInsert(k) \/ ApiUpdate(k)
       \/ \E x \in Entry : Post(k, x) \/ \E r \in rows : Patch(k, r, x)
  \/ \E r \in rows : Delete(r)

Next ==
  \/ \E t \in Task : Progress(t) \/ Fault(t)
  \/ \E c \in Comment :
       \/ StoreComment(c)
       \/ \E l \in Reactor, x \in Content : React(c, l, x)
       \/ \E e \in reacted[c] : Withdraw(c, e)
  \/ Api

Spec == Init /\ [][Next]_vars

\* The worker serves the queue "feedback" and its queries and calls end.
Fairness == \A t \in Task : WF_vars(Progress(t))
FairSpec == Spec /\ Fairness

-----------------------------------------------------------------------------
(* Properties.                                                              *)

\* Tasks on their own, however many run at once and however often they are repeated,
\* leave one row per reactor on a comment, though the constraint would allow two: they
\* all come to a reactor's oldest vote first.  It takes a withdrawn reaction or a
\* writer of the API to break this (feedback_worker.py:76-83).
OneVotePerReactor ==
  \A f, g \in rows :
    Pair(f.entry) = Pair(g.entry) /\ Pair(f.entry) \notin touched => f = g

\* "completed" is true: whoever is named as a voter on the list the task was given has a
\* row, unless somebody has changed that pair since (feedback_worker.py:64-88).
CompletedSawAll ==
  \A t \in Task : pc[t] = "completed" =>
    \A e \in seen[t] :
      \/ <<CommentOf[t], e.login>> \in touched
      \/ VotesOf(CommentOf[t], e.login) # {}

\* Every task comes to an end, whatever other tasks and the API write meanwhile.
EveryTaskEnds == \A t \in Task : <>(pc[t] \in Ended)
=============================================================================
