------------------------ MODULE FeedbackCaptureProofs ------------------------
(***************************************************************************)
(* Proofs about FeedbackCapture, for any comments, users, tasks, requests  *)
(* and any length of a page.  What a pair of comment and user looks like   *)
(* is followed as long as nobody has touched the pair: its votes on GitHub *)
(* are only added to, with growing ids, its rows are only added to, and    *)
(* every task that comes to the pair comes to its first vote first.        *)
(***************************************************************************)
EXTENDS FeedbackCapture, FiniteSetTheorems, TLAPS

VoteOf(e, l) == e.content \in Vote /\ e.login = l

\* The oldest vote of a user on a comment.
First(c, l, e) ==
  /\ e \in reacted[c] /\ VoteOf(e, l)
  /\ \A g \in reacted[c] : VoteOf(g, l) => e.id <= g.id

Untouched(c, l) == <<c, l>> \notin touched

\* GitHub's ids grow; no two reactions have one id.
Ids ==
  \A c \in Comment :
    /\ IsFiniteSet(reacted[c])
    /\ \A e \in reacted[c] : e.id <= reactions
    /\ \A e, g \in reacted[c] : e.id = g.id => e = g

\* The unique constraint of the table.
Unique == \A f, g \in rows : f.entry = g.entry => f = g

RowsAreFirst ==
  \A f \in rows :
    \/ Pair(f.entry) \in touched
    \/ \E e \in reacted[f.entry.comment] :
         First(f.entry.comment, f.entry.login, e) /\ f.entry.reaction = e.content

\* What a task was given is on GitHub yet.
Given(t) ==
  /\ todo[t] \subseteq seen[t]
  /\ \A e, g \in seen[t] : e.id = g.id => e = g
  /\ \A e \in seen[t] :
       /\ e.content \in Vote /\ e.login \in Login
       /\ Untouched(CommentOf[t], e.login) => e \in reacted[CommentOf[t]]

\* Before a vote that is waiting stand all the older votes of its user, unless the
\* user has a row.
Pending(t) ==
  \A e \in todo[t] : Untouched(CommentOf[t], e.login) =>
    \/ VotesOf(CommentOf[t], e.login) # {}
    \/ \A g \in reacted[CommentOf[t]] :
         VoteOf(g, e.login) /\ g.id <= e.id => g \in todo[t]

\* What is about to be inserted is a first vote.
AtFirst(t) ==
  pc[t] \in {"insert", "reselect"} =>
    \A e \in todo[t] : Current(t, e) /\ Untouched(CommentOf[t], e.login)
                         => First(CommentOf[t], e.login, e)

\* Who has been handled has a row.
Done(t) ==
  /\ \A e \in seen[t] \ todo[t] :
       Untouched(CommentOf[t], e.login) => VotesOf(CommentOf[t], e.login) # {}
  /\ pc[t] = "completed" => todo[t] = {}

TaskInv(t) == Given(t) /\ Pending(t) /\ AtFirst(t) /\ Done(t)
Inv == TypeOK /\ Ids /\ Unique /\ RowsAreFirst /\ \A t \in Task : TaskInv(t)

\* What a step may do to a pair it does not touch.
Kept(c, l) ==
  /\ \A f \in rows : f.entry.comment = c /\ f.entry.login = l => f \in rows'
  /\ \A e \in reacted[c] : e.login = l => e \in reacted'[c]
  /\ \A e \in reacted'[c] : e.login = l /\ e \notin reacted[c] => e.id > reactions
Monotone ==
  /\ touched \subseteq touched'
  /\ \A c \in Comment, l \in Reactor : <<c, l>> \notin touched' => Kept(c, l)

LEMMA FirstKept ==
  ASSUME TypeOK, Ids, TypeOK', Monotone,
         NEW c \in Comment, NEW l \in Reactor, NEW e, First(c, l, e), <<c, l>> \notin touched'
  PROVE  First(c, l, e)'
<1>1. Kept(c, l)
  BY DEF Monotone
<1>2. e \in reacted'[c]
  BY <1>1 DEF Kept, First, VoteOf
<1>3. ASSUME NEW g \in reacted'[c], VoteOf(g, l) PROVE e.id <= g.id
  <2>1. CASE g \in reacted[c]
    BY <1>3, <2>1 DEF First
  <2>2. CASE g \notin reacted[c]
    <3>1. g.id > reactions /\ g.id \in Nat
      BY <1>1, <1>3, <2>2 DEF Kept, VoteOf, TypeOK, Reaction
    <3>2. e.id <= reactions /\ e.id \in Nat
      BY DEF First, Ids, TypeOK, Reaction
    <3>3. QED
      BY <3>1, <3>2 DEF TypeOK
  <2>3. QED
    BY <2>1, <2>2
<1>4. QED
  BY <1>2, <1>3 DEF First, VoteOf

\* A task whose lists a step leaves alone, the task of the step itself included.
LEMMA ListsKept ==
  ASSUME Inv, TypeOK', Monotone, NEW t \in Task,
         todo'[t] = todo[t], seen'[t] = seen[t],
         pc'[t] \in {"insert", "reselect"} => pc[t] \in {"insert", "reselect"},
         pc'[t] = "completed" => pc[t] = "completed" \/ todo[t] = {}
  PROVE  TaskInv(t)'
<1> DEFINE c == CommentOf[t]
<1>1. c \in Comment /\ touched \subseteq touched'
  BY FeedbackAssumption DEF Monotone
<1>2. \A e \in seen[t] \cup todo[t] : e.login \in Reactor /\ e.content \in Content /\ e.id \in Nat
  BY DEF Inv, TypeOK, Reaction
<1>3. ASSUME NEW l \in Reactor, <<c, l>> \notin touched', VotesOf(c, l) # {}
      PROVE  VotesOf(c, l)' # {}
  BY <1>1, <1>3 DEF Monotone, Kept, VotesOf
<1>4. Given(t)'
  BY <1>1, <1>2 DEF Inv, TaskInv, Given, Untouched, Monotone, Kept
<1>5. Done(t)'
  BY <1>1, <1>2, <1>3 DEF Inv, TaskInv, Done, Untouched
<1>6. AtFirst(t)'
  BY <1>1, <1>2, FirstKept DEF Inv, TaskInv, AtFirst, Untouched, Current
<1>7. Pending(t)'
  <2> SUFFICES ASSUME NEW e \in todo[t], <<c, e.login>> \notin touched',
                      VotesOf(c, e.login)' = {},
                      NEW g \in reacted'[c], VoteOf(g, e.login), g.id <= e.id
               PROVE  g \in todo[t]
    BY DEF Pending, Untouched, VoteOf
  <2>1. VotesOf(c, e.login) = {} /\ Untouched(c, e.login)
    BY <1>1, <1>2, <1>3 DEF Untouched
  <2>2. e \in reacted[c] /\ e.id <= reactions
    BY <2>1, <1>1 DEF Inv, TaskInv, Given, Ids
  <2>3. g \in reacted[c]
    <3>1. g.id \in Nat /\ e.id \in Nat /\ reactions \in Nat
      BY <1>1, <1>2 DEF Inv, TypeOK, Reaction
    <3>2. Kept(c, e.login)
      BY <1>1, <1>2 DEF Monotone
    <3>3. QED
      BY <3>1, <3>2, <2>2 DEF Kept, VoteOf
  <2>4. QED
    BY <2>1, <2>3 DEF Inv, TaskInv, Pending
<1>8. QED
  BY <1>4, <1>5, <1>6, <1>7 DEF TaskInv

\* A task that has handled a reaction whose user has a row now, or had one changed.
LEMMA OneHandled ==
  ASSUME Inv, TypeOK', Monotone, NEW t \in Task, NEW e \in todo[t],
         todo'[t] = todo[t] \ {e}, seen'[t] = seen[t], pc'[t] = "select",
         Untouched(CommentOf[t], e.login)' => VotesOf(CommentOf[t], e.login)' # {}
  PROVE  TaskInv(t)'
<1> DEFINE c == CommentOf[t]
<1>1. c \in Comment /\ touched \subseteq touched'
  BY FeedbackAssumption DEF Monotone
<1>2. \A g \in seen[t] \cup todo[t] : g.login \in Reactor /\ g.content \in Content /\ g.id \in Nat
  BY DEF Inv, TypeOK, Reaction
<1>3. ASSUME NEW l \in Reactor, <<c, l>> \notin touched', VotesOf(c, l) # {}
      PROVE  VotesOf(c, l)' # {}
  BY <1>1, <1>3 DEF Monotone, Kept, VotesOf
<1>4. Given(t)'
  BY <1>1, <1>2 DEF Inv, TaskInv, Given, Untouched, Monotone, Kept
<1>5. Done(t)'
  BY <1>1, <1>2, <1>3 DEF Inv, TaskInv, Done, Untouched
<1>6. AtFirst(t)'
  BY DEF AtFirst
<1>7. Pending(t)'
  <2> SUFFICES ASSUME NEW x \in todo'[t], <<c, x.login>> \notin touched',
                      VotesOf(c, x.login)' = {},
                      NEW g \in reacted'[c], VoteOf(g, x.login), g.id <= x.id
               PROVE  g \in todo'[t]
    BY DEF Pending, Untouched, VoteOf
  <2>1. VotesOf(c, x.login) = {} /\ Untouched(c, x.login)
    BY <1>1, <1>2, <1>3 DEF Untouched
  <2>2. x \in reacted[c] /\ x.id <= reactions
    BY <2>1, <1>1 DEF Inv, TaskInv, Given, Ids
  <2>3. g \in reacted[c]
    <3>1. g.id \in Nat /\ x.id \in Nat /\ reactions \in Nat
      BY <1>1, <1>2 DEF Inv, TypeOK, Reaction
    <3>2. Kept(c, x.login)
      BY <1>1, <1>2 DEF Monotone
    <3>3. QED
      BY <3>1, <3>2, <2>2 DEF Kept, VoteOf
  <2>4. g \in todo[t]
    BY <2>1, <2>3 DEF Inv, TaskInv, Pending
  <2>5. x.login # e.login
    BY DEF Untouched
  <2>6. QED
    BY <2>4, <2>5 DEF VoteOf
<1>8. QED
  BY <1>4, <1>5, <1>6, <1>7 DEF TaskInv

\* A task with nothing before it.
LEMMA Emptied ==
  ASSUME NEW t \in Task, todo'[t] = {}, seen'[t] = {}
  PROVE  TaskInv(t)'
BY DEF TaskInv, Given, Pending, AtFirst, Done

-----------------------------------------------------------------------------
(* Types, the table and GitHub, a lemma per group of actions.               *)

\* What the whole of a step keeps besides the tasks.
Shared == TypeOK /\ Ids /\ Unique /\ RowsAreFirst

\* A step that leaves GitHub and the rows alone, and only adds to the touched pairs.
LEMMA RowsLeft ==
  ASSUME Ids, Unique, RowsAreFirst, TypeOK', UNCHANGED <<reacted, reactions, rows, touched>>
  PROVE  Shared' /\ Monotone
<1>1. Monotone
  BY DEF Monotone, Kept
<1>2. Ids' /\ Unique'
  BY DEF Ids, Unique
<1>3. RowsAreFirst'
  BY DEF RowsAreFirst, First
<1>4. QED
  BY <1>1, <1>2, <1>3 DEF Shared

\* A row is added that is a first vote, or whose pair becomes touched.
LEMMA RowAdded ==
  ASSUME Shared, TypeOK', UNCHANGED <<reacted, reactions>>, touched \subseteq touched',
         NEW x \in Entry, NEW i \in Nat, NEW old \in SUBSET rows,
         rows' = old \cup {[id |-> i, entry |-> x]},
         \A f \in rows \ old : Pair(f.entry) \in touched',
         \A f \in old : f.entry # x,
         \/ Pair(x) \in touched'
         \/ \E e \in reacted[x.comment] : First(x.comment, x.login, e) /\ x.reaction = e.content
  PROVE  Shared' /\ Monotone
<1> USE DEF Shared
<1>1. Monotone
  <2>1. ASSUME NEW c \in Comment, NEW l \in Reactor, <<c, l>> \notin touched'
        PROVE  Kept(c, l)
    BY <2>1 DEF Kept, Pair
  <2>2. QED
    BY <2>1 DEF Monotone
<1>2. Ids'
  BY DEF Ids
<1>3. Unique'
  BY DEF Unique
<1>4. RowsAreFirst'
  BY DEF RowsAreFirst, First
<1>5. QED
  BY <1>1, <1>2, <1>3, <1>4

\* A row is taken out, and its pair is touched.
LEMMA RowRemoved ==
  ASSUME Shared, NEW r \in rows, Delete(r)
  PROVE  Shared' /\ Monotone
<1> USE DEF Shared
<1>1. Pair(r.entry) \in Comment \X Reactor
  BY DEF TypeOK, Entry, Reactor, Pair
<1>2. TypeOK'
  BY <1>1 DEF TypeOK, Delete, github, tasks, api
<1>3. Monotone
  <2>1. UNCHANGED <<reacted, reactions>>
    BY DEF Delete, github
  <2>2. ASSUME NEW c \in Comment, NEW l \in Reactor, <<c, l>> \notin touched'
        PROVE  Kept(c, l)
    BY <2>1, <2>2 DEF Kept, Pair, Delete
  <2>3. QED
    BY <2>1, <2>2 DEF Monotone, Delete
<1>4. Ids' /\ Unique'
  BY DEF Ids, Unique, Delete, github
<1>5. RowsAreFirst'
  BY DEF RowsAreFirst, First, Delete, github
<1>6. QED
  BY <1>2, <1>3, <1>4, <1>5

\* Somebody reacts: the newest reaction of all.
LEMMA Reacts ==
  ASSUME Shared, NEW c \in Comment, NEW l \in Reactor, NEW x \in Content, React(c, l, x)
  PROVE  Shared' /\ Monotone
<1> USE DEF Shared
<1> DEFINE n == [id |-> reactions + 1, login |-> l, content |-> x]
<1>1. n \in Reaction /\ n.id = reactions + 1 /\ n.login = l /\ n.content = x
  BY DEF Reaction, TypeOK
<1>2. /\ reacted' = [reacted EXCEPT ![c] = @ \cup {n}] /\ reactions' = reactions + 1
      /\ UNCHANGED <<stored, rows, nextId, pc, todo, seen, form, requests, touched>>
  BY DEF React, database, tasks, api
<1> HIDE DEF n
<1>3. TypeOK'
  BY <1>1, <1>2 DEF TypeOK
<1>4. ASSUME NEW d \in Comment PROVE reacted'[d] = IF d = c THEN reacted[d] \cup {n} ELSE reacted[d]
  BY <1>2 DEF TypeOK
<1>5. \A d \in Comment : \A e \in reacted[d] : e.id <= reactions /\ e.id \in Nat
  BY DEF Ids, TypeOK, Reaction
<1>6. Ids'
  <2>1. ASSUME NEW d \in Comment PROVE IsFiniteSet(reacted'[d])
    <3>1. IsFiniteSet(reacted[d]) /\ IsFiniteSet(reacted[d] \cup {n})
      BY FS_AddElement DEF Ids
    <3>2. reacted'[d] = reacted[d] \/ reacted'[d] = reacted[d] \cup {n}
      BY <1>4
    <3>3. QED
      BY <3>1, <3>2
  <2>2. ASSUME NEW d \in Comment, NEW e \in reacted'[d] PROVE e.id <= reactions'
    BY <1>1, <1>2, <1>4, <1>5 DEF TypeOK
  <2>3. ASSUME NEW d \in Comment, NEW e \in reacted'[d], NEW g \in reacted'[d], e.id = g.id
        PROVE  e = g
    <3>1. e \in reacted[d] \cup {n} /\ g \in reacted[d] \cup {n}
      BY <1>4
    <3>2. \A h \in reacted[d] : h.id # n.id
      BY <1>1, <1>5 DEF TypeOK
    <3>3. QED
      BY <2>3, <3>1, <3>2 DEF Ids
  <2>4. QED
    BY <2>1, <2>2, <2>3 DEF Ids
<1>7. Monotone
  <2>1. ASSUME NEW d \in Comment, NEW m \in Reactor PROVE Kept(d, m)
    BY <1>1, <1>2, <1>4 DEF Kept, TypeOK
  <2>2. QED
    BY <1>2, <2>1 DEF Monotone
<1>8. Unique'
  BY <1>2 DEF Unique
<1>9. RowsAreFirst'
  <2> SUFFICES ASSUME NEW f \in rows, Pair(f.entry) \notin touched,
                      NEW e \in reacted[f.entry.comment],
                      First(f.entry.comment, f.entry.login, e), f.entry.reaction = e.content
               PROVE  \E g \in reacted'[f.entry.comment] :
                        First(f.entry.comment, f.entry.login, g)' /\ f.entry.reaction = g.content
    BY <1>2 DEF RowsAreFirst, First
  <2>1. f.entry.comment \in Comment /\ f.entry.login \in Reactor
    BY DEF TypeOK, Entry, Reactor
  <2>2. First(f.entry.comment, f.entry.login, e)'
    BY <1>2, <1>3, <1>7, <2>1, FirstKept DEF Pair
  <2>3. QED
    BY <2>2 DEF First
<1>10. QED
  BY <1>3, <1>6, <1>7, <1>8, <1>9

\* Somebody withdraws a reaction: the pair is touched.
LEMMA Withdraws ==
  ASSUME Shared, NEW c \in Comment, NEW w \in reacted[c], Withdraw(c, w)
  PROVE  Shared' /\ Monotone
<1> USE DEF Shared
<1>1. w.login \in Reactor
  BY DEF TypeOK, Reaction
<1>2. /\ reacted' = [reacted EXCEPT ![c] = @ \ {w}] /\ touched' = touched \cup {<<c, w.login>>}
      /\ UNCHANGED <<reactions, stored, rows, nextId, pc, todo, seen, form, requests>>
  BY DEF Withdraw, database, tasks, api
<1>3. TypeOK'
  BY <1>1, <1>2 DEF TypeOK
<1>4. ASSUME NEW d \in Comment PROVE reacted'[d] = IF d = c THEN reacted[d] \ {w} ELSE reacted[d]
  BY <1>2 DEF TypeOK
<1>5. Ids'
  <2>1. ASSUME NEW d \in Comment PROVE IsFiniteSet(reacted'[d])
    <3>1. IsFiniteSet(reacted[d]) /\ IsFiniteSet(reacted[d] \ {w})
      BY FS_RemoveElement DEF Ids
    <3>2. reacted'[d] = reacted[d] \/ reacted'[d] = reacted[d] \ {w}
      BY <1>4
    <3>3. QED
      BY <3>1, <3>2
  <2>2. QED
    BY <1>2, <1>4, <2>1 DEF Ids
<1>6. Monotone
  <2>1. ASSUME NEW d \in Comment, NEW m \in Reactor, <<d, m>> \notin touched' PROVE Kept(d, m)
    BY <1>2, <1>4, <2>1 DEF Kept
  <2>2. QED
    BY <1>2, <2>1 DEF Monotone
<1>7. Unique'
  BY <1>2 DEF Unique
<1>8. RowsAreFirst'
  <2> SUFFICES ASSUME NEW f \in rows, Pair(f.entry) \notin touched',
                      NEW e \in reacted[f.entry.comment],
                      First(f.entry.comment, f.entry.login, e), f.entry.reaction = e.content
               PROVE  \E g \in reacted'[f.entry.comment] :
                        First(f.entry.comment, f.entry.login, g)' /\ f.entry.reaction = g.content
    BY <1>2 DEF RowsAreFirst, First
  <2>1. f.entry.comment \in Comment /\ f.entry.login \in Reactor
    BY DEF TypeOK, Entry, Reactor
  <2>2. First(f.entry.comment, f.entry.login, e)'
    BY <1>3, <1>6, <2>1, FirstKept DEF Pair
  <2>3. QED
    BY <2>2 DEF First
<1>9. QED
  BY <1>3, <1>5, <1>6, <1>7, <1>8

-----------------------------------------------------------------------------
(* The steps of a task.                                                     *)

\* A step of one task.
LEMMA OneTask ==
  ASSUME Inv, Shared', Monotone, NEW t \in Task, TaskInv(t)',
         \A u \in Task \ {t} : pc'[u] = pc[u] /\ todo'[u] = todo[u] /\ seen'[u] = seen[u]
  PROVE  Inv'
<1>1. ASSUME NEW u \in Task, u # t PROVE TaskInv(u)'
  BY <1>1, ListsKept DEF Shared
<1>2. QED
  BY <1>1 DEF Inv, Shared

\* A step that is no task's.
LEMMA NoTask ==
  ASSUME Inv, Shared', Monotone, UNCHANGED <<pc, todo, seen>>
  PROVE  Inv'
<1>1. ASSUME NEW u \in Task PROVE TaskInv(u)'
  BY ListsKept DEF Shared
<1>2. QED
  BY <1>1 DEF Inv, Shared

\* A step that changes the place and the lists of one task, and nothing else.
LEMMA TaskOnly ==
  ASSUME Inv, NEW t \in Task,
         NEW to \in {"queued"} \cup Busy \cup Ended, pc' = [pc EXCEPT ![t] = to],
         NEW es \in SUBSET Reaction, todo' = [todo EXCEPT ![t] = es],
         NEW gs \in SUBSET Reaction, seen' = [seen EXCEPT ![t] = gs],
         UNCHANGED <<github, database, api, touched>>
  PROVE  /\ Shared' /\ Monotone
         /\ pc'[t] = to /\ todo'[t] = es /\ seen'[t] = gs
         /\ \A u \in Task \ {t} : pc'[u] = pc[u] /\ todo'[u] = todo[u] /\ seen'[u] = seen[u]
<1> USE DEF Inv, github, database, api
<1>1. pc' \in [Task -> {"queued"} \cup Busy \cup Ended]
  BY DEF TypeOK
<1>2. todo' \in [Task -> SUBSET Reaction] /\ seen' \in [Task -> SUBSET Reaction]
  BY DEF TypeOK
<1>3. TypeOK'
  BY <1>1, <1>2 DEF TypeOK
<1>4. QED
  BY <1>3, RowsLeft DEF TypeOK

\* FindComment, Complete, the two that end a task at two rows, and the way to
\* the second SELECT: the lists stay.
LEMMA TaskMoves ==
  ASSUME Inv, NEW t \in Task,
         NEW to \in {"queued"} \cup Busy \cup Ended, pc' = [pc EXCEPT ![t] = to],
         to \in {"insert", "reselect"} => pc[t] \in {"insert", "reselect"},
         to = "completed" => todo[t] = {},
         UNCHANGED <<github, database, todo, seen, api, touched>>
  PROVE  Inv'
<1>1. todo[t] \in SUBSET Reaction /\ todo' = [todo EXCEPT ![t] = todo[t]]
  BY DEF Inv, TypeOK
<1>2. seen[t] \in SUBSET Reaction /\ seen' = [seen EXCEPT ![t] = seen[t]]
  BY DEF Inv, TypeOK
<1>3. /\ Shared' /\ Monotone
      /\ pc'[t] = to /\ todo'[t] = todo[t] /\ seen'[t] = seen[t]
      /\ \A u \in Task \ {t} : pc'[u] = pc[u] /\ todo'[u] = todo[u] /\ seen'[u] = seen[u]
  BY <1>1, <1>2, TaskOnly, Zenon
<1>4. TaskInv(t)'
  BY <1>3, ListsKept DEF Shared
<1>5. QED
  BY <1>3, <1>4, OneTask

LEMMA TaskForgets ==
  ASSUME Inv, NEW t \in Task, NEW to \in {"queued"} \cup Busy \cup Ended,
         pc' = [pc EXCEPT ![t] = to], Forget(t),
         UNCHANGED <<github, database, api, touched>>
  PROVE  Inv'
<1>1. {} \in SUBSET Reaction
  OBVIOUS
<1>2. /\ Shared' /\ Monotone
      /\ pc'[t] = to /\ todo'[t] = {} /\ seen'[t] = {}
      /\ \A u \in Task \ {t} : pc'[u] = pc[u] /\ todo'[u] = todo[u] /\ seen'[u] = seen[u]
  BY <1>1, TaskOnly, Zenon DEF Forget
<1>3. TaskInv(t)'
  BY <1>2, Emptied
<1>4. QED
  BY <1>2, <1>3, OneTask

\* The page holds, with a reaction, every older one.
LEMMA PageIsPrefix ==
  ASSUME TypeOK, Ids, NEW c \in Comment, NEW e \in FirstPage(c), NEW g \in reacted[c],
         g.id <= e.id
  PROVE  g \in FirstPage(c)
<1> DEFINE Older(x) == {h \in reacted[c] : h.id < x.id}
<1>1. e \in reacted[c] /\ Cardinality(Older(e)) < Page
  BY DEF FirstPage
<1>2. \A h \in reacted[c] : h.id \in Nat
  BY DEF TypeOK, Reaction
<1>3. Older(g) \subseteq Older(e)
  BY <1>1, <1>2
<1>4. IsFiniteSet(Older(e))
  <2>1. IsFiniteSet(reacted[c]) /\ Older(e) \subseteq reacted[c]
    BY DEF Ids
  <2> HIDE DEF Older
  <2>2. QED
    BY <2>1, FS_Subset
<1> HIDE DEF Older
<1>5. /\ Cardinality(Older(g)) <= Cardinality(Older(e))
      /\ IsFiniteSet(Older(g))
  BY <1>3, <1>4, FS_Subset
<1>6. Cardinality(Older(g)) \in Nat /\ Cardinality(Older(e)) \in Nat
  BY <1>4, <1>5, FS_CardinalityType
<1>7. Cardinality(Older(g)) < Page
  BY <1>1, <1>5, <1>6, FeedbackAssumption
<1>8. QED
  BY <1>7 DEF FirstPage, Older

LEMMA Fetches ==
  ASSUME Inv, NEW t \in Task, Fetch(t)
  PROVE  Inv'
<1> DEFINE c == CommentOf[t]
           es == Votes(FirstPage(c))
<1>1. c \in Comment
  BY FeedbackAssumption
<1>2. es \in SUBSET Reaction /\ es \subseteq reacted[c]
  BY <1>1 DEF Votes, FirstPage, Inv, TypeOK
<1>3. \A e \in es : e.content \in Vote /\ e.login \in Login
  BY <1>2 DEF Votes, Reaction, Reactor
<1>4. ASSUME NEW e \in es, NEW g \in reacted[c], VoteOf(g, e.login), g.id <= e.id
      PROVE  g \in es
  BY <1>1, <1>4, PageIsPrefix DEF Votes, VoteOf, Inv
<1>5. "select" \in {"queued"} \cup Busy \cup Ended
  BY DEF Busy
<1>6. /\ pc' = [pc EXCEPT ![t] = "select"]
      /\ todo' = [todo EXCEPT ![t] = es] /\ seen' = [seen EXCEPT ![t] = es]
      /\ UNCHANGED <<github, database, api, touched>>
  BY DEF Fetch, Goto
<1> HIDE DEF es
<1>7. /\ Shared' /\ Monotone
      /\ pc'[t] = "select" /\ todo'[t] = es /\ seen'[t] = es
      /\ \A u \in Task \ {t} : pc'[u] = pc[u] /\ todo'[u] = todo[u] /\ seen'[u] = seen[u]
  BY <1>2, <1>5, <1>6, TaskOnly, Zenon
<1>8. reacted' = reacted
  BY <1>6 DEF github
<1>9. TaskInv(t)'
  <2>1. Given(t)'
    BY <1>1, <1>2, <1>3, <1>7, <1>8 DEF Given, Inv, Ids
  <2>2. Pending(t)'
    BY <1>4, <1>7, <1>8 DEF Pending, VoteOf
  <2>3. AtFirst(t)'
    BY <1>7 DEF AtFirst
  <2>4. Done(t)'
    BY <1>7 DEF Done
  <2>5. QED
    BY <2>1, <2>2, <2>3, <2>4 DEF TaskInv
<1>10. QED
  BY <1>7, <1>9, OneTask

\* A reaction is handled by a SELECT that found its user's row.
LEMMA FindsRow ==
  ASSUME Inv, NEW t \in Task, NEW e \in todo[t], Handled(t, e),
         VotesOf(CommentOf[t], e.login) # {},
         pc' = [pc EXCEPT ![t] = "select"],
         UNCHANGED <<github, database, seen, api, touched>>
  PROVE  Inv'
<1>1. todo[t] \ {e} \in SUBSET Reaction /\ "select" \in {"queued"} \cup Busy \cup Ended
  BY DEF Inv, TypeOK, Busy
<1>2. seen[t] \in SUBSET Reaction /\ seen' = [seen EXCEPT ![t] = seen[t]]
  BY DEF Inv, TypeOK
<1>3. todo' = [todo EXCEPT ![t] = todo[t] \ {e}]
  BY DEF Handled
<1>4. /\ Shared' /\ Monotone
      /\ pc'[t] = "select" /\ todo'[t] = todo[t] \ {e} /\ seen'[t] = seen[t]
      /\ \A u \in Task \ {t} : pc'[u] = pc[u] /\ todo'[u] = todo[u] /\ seen'[u] = seen[u]
  BY <1>1, <1>2, <1>3, TaskOnly, Zenon
<1>5. VotesOf(CommentOf[t], e.login)' # {}
  BY DEF VotesOf, database
<1>6. TaskInv(t)'
  BY <1>4, <1>5, OneHandled DEF Shared
<1>7. QED
  BY <1>4, <1>6, OneTask

\* The SELECT finds no row of the user: what is next is the user's first vote.
LEMMA FindsNone ==
  ASSUME Inv, NEW t \in Task, NEW e, Current(t, e), VotesOf(CommentOf[t], e.login) = {},
         pc' = [pc EXCEPT ![t] = "insert"],
         UNCHANGED <<github, database, todo, seen, api, touched>>
  PROVE  Inv'
<1> DEFINE c == CommentOf[t]
<1>1. todo[t] \in SUBSET Reaction /\ todo' = [todo EXCEPT ![t] = todo[t]]
  BY DEF Inv, TypeOK
<1>2. seen[t] \in SUBSET Reaction /\ seen' = [seen EXCEPT ![t] = seen[t]]
  BY DEF Inv, TypeOK
<1>3. "insert" \in {"queued"} \cup Busy \cup Ended
  BY DEF Busy
<1>4. /\ Shared' /\ Monotone
      /\ pc'[t] = "insert" /\ todo'[t] = todo[t] /\ seen'[t] = seen[t]
      /\ \A u \in Task \ {t} : pc'[u] = pc[u] /\ todo'[u] = todo[u] /\ seen'[u] = seen[u]
  BY <1>1, <1>2, <1>3, TaskOnly, Zenon
<1>5. UNCHANGED <<reacted, reactions, rows, touched>>
  BY DEF github, database
<1>6. ASSUME NEW x \in todo[t], Current(t, x), Untouched(c, x.login)
      PROVE  First(c, x.login, x)
  <2>1. e \in todo[t] /\ e.id \in Nat /\ x.id \in Nat
    BY DEF Current, Inv, TypeOK, Reaction
  <2>2. x.id = e.id
    BY <1>6, <2>1 DEF Current
  <2>3. x = e
    BY <2>1, <2>2 DEF Inv, TaskInv, Given
  <2>4. e \in reacted[c] /\ VoteOf(e, e.login)
    BY <1>6, <2>1, <2>3 DEF Inv, TaskInv, Given, VoteOf
  <2>5. ASSUME NEW g \in reacted[c], VoteOf(g, e.login) PROVE e.id <= g.id
    <3>1. g.id \in Nat
      <4>1. c \in Comment
        BY FeedbackAssumption
      <4>2. reacted[c] \in SUBSET Reaction
        BY <4>1 DEF Inv, TypeOK
      <4>3. QED
        BY <4>2 DEF Reaction
    <3>2. g.id <= e.id => g \in todo[t]
      BY <1>6, <2>1, <2>3, <2>5 DEF Inv, TaskInv, Pending
    <3>3. QED
      BY <2>1, <3>1, <3>2 DEF Current
  <2>6. QED
    BY <2>3, <2>4, <2>5 DEF First
<1>7. AtFirst(t)'
  BY <1>4, <1>5, <1>6 DEF AtFirst, Current, Untouched, First
<1>8. Given(t)' /\ Pending(t)' /\ Done(t)'
  BY <1>4, <1>5 DEF Inv, TaskInv, Given, Pending, Done, Untouched, VotesOf
<1>9. TaskInv(t)'
  BY <1>7, <1>8 DEF TaskInv
<1>10. QED
  BY <1>4, <1>9, OneTask

LEMMA Selects ==
  ASSUME Inv, NEW t \in Task, Select(t)
  PROVE  Inv'
<1>1. PICK e \in todo[t] :
        /\ Current(t, e)
        /\ \/ /\ VotesOf(CommentOf[t], e.login) = {}
              /\ Goto(t, "select", "insert") /\ UNCHANGED todo
           \/ /\ VotesOf(CommentOf[t], e.login) # {}
              /\ Handled(t, e) /\ UNCHANGED pc
           \/ Goto(t, "select", "raised") /\ UNCHANGED todo
  BY DEF Select
<1>2. UNCHANGED <<github, database, seen, api, touched>> /\ pc[t] = "select"
  BY DEF Select
<1>3. CASE VotesOf(CommentOf[t], e.login) = {} /\ Goto(t, "select", "insert") /\ UNCHANGED todo
  BY <1>1, <1>2, <1>3, FindsNone DEF Goto
<1>4. CASE VotesOf(CommentOf[t], e.login) # {} /\ Handled(t, e) /\ UNCHANGED pc
  <2>1. pc' = [pc EXCEPT ![t] = "select"]
    BY <1>2, <1>4 DEF Inv, TypeOK
  <2>2. QED
    BY <1>2, <1>4, <2>1, FindsRow
<1>5. CASE Goto(t, "select", "raised") /\ UNCHANGED todo
  BY <1>2, <1>5, TaskMoves DEF Goto, Ended
<1>6. QED
  BY <1>1, <1>3, <1>4, <1>5

LEMMA Inserts ==
  ASSUME Inv, NEW t \in Task, Insert(t)
  PROVE  Inv'
<1> DEFINE c == CommentOf[t]
<1>1. PICK e \in todo[t] :
        /\ Current(t, e)
        /\ \/ Goto(t, "insert", "reselect") /\ UNCHANGED <<todo, rows, nextId>>
           \/ /\ ~InTable(EntryOf(t, e))
              /\ Handled(t, e) /\ Goto(t, "insert", "select")
              /\ rows' = Inserted(EntryOf(t, e)) /\ nextId' = nextId + 1
  BY DEF Insert
<1>2. UNCHANGED <<github, stored, seen, api, touched>> /\ pc[t] = "insert"
  BY DEF Insert
<1>3. CASE Goto(t, "insert", "reselect") /\ UNCHANGED <<todo, rows, nextId>>
  BY <1>2, <1>3, TaskMoves DEF Goto, Busy, database
<1>4. CASE /\ ~InTable(EntryOf(t, e))
           /\ Handled(t, e) /\ Goto(t, "insert", "select")
           /\ rows' = Inserted(EntryOf(t, e)) /\ nextId' = nextId + 1
  <2> DEFINE x == EntryOf(t, e)
  <2>1. e \in Reaction /\ e.content \in Vote /\ e.login \in Login /\ c \in Comment
    BY FeedbackAssumption DEF Inv, TypeOK, TaskInv, Given
  <2>2. x \in Entry /\ x.comment = c /\ x.login = e.login /\ x.reaction = e.content
    BY <2>1 DEF EntryOf, Entry, Reaction
  <2>3. nextId \in Nat /\ rows' = rows \cup {[id |-> nextId, entry |-> x]}
    BY <1>4 DEF Inserted, Inv, TypeOK
  <2>4. \A f \in rows : f.entry # x
    BY <1>4 DEF InTable
  <2> HIDE DEF x
  <2>5. [id |-> nextId, entry |-> x] \in [id : Nat, entry : Entry]
    BY <2>2, <2>3
  <2>6. pc' = [pc EXCEPT ![t] = "select"] /\ todo' = [todo EXCEPT ![t] = @ \ {e}]
    BY <1>4 DEF Goto, Handled
  <2>7. pc' \in [Task -> {"queued"} \cup Busy \cup Ended]
    BY <2>6 DEF Inv, TypeOK, Busy
  <2>8. todo' \in [Task -> SUBSET Reaction]
    BY <2>6 DEF Inv, TypeOK
  <2>9. TypeOK'
    BY <1>2, <1>4, <2>3, <2>5, <2>7, <2>8 DEF Inv, TypeOK, github, api
  <2>10. \/ Pair(x) \in touched'
         \/ \E g \in reacted[x.comment] : First(x.comment, x.login, g) /\ x.reaction = g.content
    BY <1>1, <1>2, <2>2 DEF Inv, TaskInv, AtFirst, Untouched, Pair, First
  <2>11. Shared' /\ Monotone
    <3>1. Shared /\ UNCHANGED <<reacted, reactions>> /\ touched \subseteq touched'
      BY <1>2 DEF Inv, Shared, github
    <3>2. rows \in SUBSET rows /\ \A f \in rows \ rows : Pair(f.entry) \in touched'
      OBVIOUS
    <3>3. QED
      BY <2>2, <2>3, <2>4, <2>9, <2>10, <3>1, <3>2, RowAdded
  <2>12. [id |-> nextId, entry |-> x] \in VotesOf(c, e.login)'
    BY <2>2, <2>3 DEF VotesOf
  <2>13. /\ todo'[t] = todo[t] \ {e} /\ seen'[t] = seen[t] /\ pc'[t] = "select"
         /\ \A u \in Task \ {t} : pc'[u] = pc[u] /\ todo'[u] = todo[u] /\ seen'[u] = seen[u]
    BY <1>2, <2>6 DEF Inv, TypeOK
  <2>14. TaskInv(t)'
    BY <2>9, <2>11, <2>12, <2>13, OneHandled
  <2>15. QED
    BY <2>11, <2>13, <2>14, OneTask
<1>5. QED
  BY <1>1, <1>3, <1>4

LEMMA Reselects ==
  ASSUME Inv, NEW t \in Task, Reselect(t)
  PROVE  Inv'
<1>1. PICK e \in todo[t] :
        \/ /\ VotesOf(CommentOf[t], e.login) # {}
           /\ Handled(t, e) /\ Goto(t, "reselect", "select")
        \/ Goto(t, "reselect", "raised") /\ UNCHANGED todo
  BY DEF Reselect
<1>2. UNCHANGED <<github, database, seen, api, touched>>
  BY DEF Reselect
<1>3. CASE VotesOf(CommentOf[t], e.login) # {} /\ Handled(t, e) /\ Goto(t, "reselect", "select")
  BY <1>2, <1>3, FindsRow DEF Goto
<1>4. CASE Goto(t, "reselect", "raised") /\ UNCHANGED todo
  BY <1>2, <1>4, TaskMoves DEF Goto, Ended
<1>5. QED
  BY <1>1, <1>3, <1>4

LEMMA Fails ==
  ASSUME Inv, NEW t \in Task, Fault(t)
  PROVE  Inv'
<1>1. CASE FetchFails(t)
  <2>1. PICK e \in FetchRaises :
          /\ Goto(t, "fetch", IF e \in {"HTTPStatusError", "HttpTimeout"} THEN "select"
                              ELSE IF Caught(e, {"OSError", "RuntimeError"}) THEN "error"
                              ELSE "raised")
          /\ Forget(t)
          /\ UNCHANGED <<github, database, api, touched>>
    BY <1>1 DEF FetchFails
  <2>2. \E to \in {"select", "error", "raised"} : pc' = [pc EXCEPT ![t] = to]
    BY <2>1 DEF Goto
  <2>3. QED
    BY <2>1, <2>2, TaskForgets DEF Busy, Ended
<1>2. CASE TaskEndsEarly(t)
  BY <1>2, TaskForgets DEF TaskEndsEarly, Ended
<1>3. QED
  BY <1>1, <1>2 DEF Fault

LEMMA Progresses ==
  ASSUME Inv, NEW t \in Task, Progress(t)
  PROVE  Inv'
<1>1. CASE FindComment(t)
  <2>1. \E to \in {"fetch", "skipped"} : pc' = [pc EXCEPT ![t] = to]
    BY <1>1 DEF FindComment, Goto
  <2>2. UNCHANGED <<github, database, todo, seen, api, touched>>
    BY <1>1 DEF FindComment
  <2>3. QED
    BY <2>1, <2>2, TaskMoves DEF Busy, Ended
<1>2. CASE Complete(t)
  <2>1. /\ pc' = [pc EXCEPT ![t] = "completed"] /\ todo[t] = {}
        /\ UNCHANGED <<github, database, todo, seen, api, touched>>
    BY <1>2 DEF Complete, Goto
  <2>2. QED
    BY <2>1, TaskMoves DEF Ended
<1>3. QED
  BY <1>1, <1>2, Fetches, Selects, Inserts, Reselects DEF Progress

-----------------------------------------------------------------------------
(* The steps of the others.                                                 *)

LEMMA StoresComment ==
  ASSUME Inv, NEW c \in Comment, StoreComment(c)
  PROVE  Inv'
<1>1. UNCHANGED <<reacted, reactions, rows, nextId, pc, todo, seen, form, requests, touched>>
  BY DEF StoreComment, github, tasks, api
<1>2. TypeOK'
  BY <1>1 DEF StoreComment, Inv, TypeOK
<1>3. Shared' /\ Monotone
  BY <1>1, <1>2, RowsLeft DEF Inv
<1>4. QED
  BY <1>1, <1>3, NoTask

LEMMA Begins ==
  ASSUME Inv, NEW k \in Client, NEW f \in Forms, Begin(k, f)
  PROVE  Inv'
<1>1. /\ UNCHANGED <<reacted, reactions, stored, rows, nextId, pc, todo, seen, touched>>
      /\ form' = [form EXCEPT ![k] = f] /\ requests' = requests + 1
  BY DEF Begin, github, database, tasks
<1>2. TypeOK'
  BY <1>1 DEF Inv, TypeOK
<1>3. Shared' /\ Monotone
  BY <1>1, <1>2, RowsLeft DEF Inv
<1>4. QED
  BY <1>1, <1>3, NoTask

LEMMA ApiInserts ==
  ASSUME Inv, NEW k \in Client, ApiInsert(k)
  PROVE  Inv'
<1> DEFINE x == form[k].entry
<1>1. x \in Entry
  <2>1. form[k] \in Forms /\ form[k].op = "insert"
    BY DEF Inv, TypeOK, ApiInsert
  <2>2. QED
    BY <2>1 DEF Forms, Idle
<1>2. /\ form' = [form EXCEPT ![k] = Idle]
      /\ UNCHANGED <<reacted, reactions, stored, pc, todo, seen, requests>>
  BY DEF ApiInsert, github, tasks
<1>3. form' \in [Client -> Forms]
  BY <1>2 DEF Inv, TypeOK, Forms
<1>4. CASE UNCHANGED <<rows, nextId, touched>>
  <2>1. TypeOK'
    BY <1>2, <1>3, <1>4 DEF Inv, TypeOK
  <2>2. Shared' /\ Monotone
    BY <1>2, <1>4, <2>1, RowsLeft DEF Inv
  <2>3. QED
    BY <1>2, <2>2, NoTask
<1>5. CASE /\ ~InTable(x) /\ rows' = Inserted(x) /\ nextId' = nextId + 1
           /\ touched' = touched \cup {Pair(x)}
  <2>1. nextId \in Nat /\ rows' = rows \cup {[id |-> nextId, entry |-> x]}
    BY <1>5 DEF Inserted, Inv, TypeOK
  <2>2. \A f \in rows : f.entry # x
    BY <1>5 DEF InTable
  <2>3. Pair(x) \in Comment \X Reactor
    BY <1>1 DEF Pair, Entry, Reactor
  <2> HIDE DEF x
  <2>4. [id |-> nextId, entry |-> x] \in [id : Nat, entry : Entry]
    BY <1>1, <2>1
  <2>5. TypeOK'
    BY <1>2, <1>3, <1>5, <2>1, <2>3, <2>4 DEF Inv, TypeOK
  <2>6. Shared /\ UNCHANGED <<reacted, reactions>> /\ touched \subseteq touched'
    BY <1>2, <1>5 DEF Inv, Shared
  <2>7. rows \in SUBSET rows /\ \A f \in rows \ rows : Pair(f.entry) \in touched'
    OBVIOUS
  <2>8. Shared' /\ Monotone
    BY <1>1, <1>5, <2>1, <2>2, <2>5, <2>6, <2>7, RowAdded
  <2>9. QED
    BY <1>2, <2>8, NoTask
<1>6. QED
  BY <1>4, <1>5 DEF ApiInsert

LEMMA ApiUpdates ==
  ASSUME Inv, NEW k \in Client, ApiUpdate(k)
  PROVE  Inv'
<1> DEFINE i == form[k].id
           x == form[k].entry
           old == {g \in rows : g.id # i}
           gone == {h \in rows : h.id = i}
<1>1. x \in Entry /\ i \in Nat
  <2>1. form[k] \in Forms /\ form[k].op = "update"
    BY DEF Inv, TypeOK, ApiUpdate
  <2>2. QED
    BY <2>1 DEF Forms, Idle
<1>2. /\ form' = [form EXCEPT ![k] = Idle]
      /\ UNCHANGED <<reacted, reactions, stored, nextId, pc, todo, seen, requests>>
  BY DEF ApiUpdate, github, tasks
<1>3. form' \in [Client -> Forms]
  BY <1>2 DEF Inv, TypeOK, Forms
<1>4. CASE UNCHANGED <<rows, touched>>
  <2>1. TypeOK'
    BY <1>2, <1>3, <1>4 DEF Inv, TypeOK
  <2>2. Shared' /\ Monotone
    BY <1>2, <1>4, <2>1, RowsLeft DEF Inv
  <2>3. QED
    BY <1>2, <2>2, NoTask
<1>5. CASE /\ ~\E g \in rows : g.id # i /\ g.entry = x
           /\ rows' = old \cup {[id |-> i, entry |-> x]}
           /\ touched' = touched \cup {Pair(x)} \cup {Pair(g.entry) : g \in gone}
  <2>1. \A f \in old : f.entry # x
    BY <1>5
  <2>2. old \in SUBSET rows /\ \A f \in rows \ old : Pair(f.entry) \in touched'
    BY <1>5
  <2>3. Pair(x) \in Comment \X Reactor /\ \A g \in gone : Pair(g.entry) \in Comment \X Reactor
    BY <1>1 DEF Pair, Entry, Reactor, Inv, TypeOK
  <2> HIDE DEF x, i, old, gone
  <2>4. [id |-> i, entry |-> x] \in [id : Nat, entry : Entry]
    BY <1>1
  <2>5. touched' \subseteq Comment \X Reactor
    BY <1>5, <2>3 DEF Inv, TypeOK
  <2>6. rows' \subseteq [id : Nat, entry : Entry]
    BY <1>5, <2>2, <2>4 DEF Inv, TypeOK
  <2>7. TypeOK'
    BY <1>2, <1>3, <2>5, <2>6 DEF Inv, TypeOK
  <2>8. Shared /\ UNCHANGED <<reacted, reactions>> /\ touched \subseteq touched' /\ Pair(x) \in touched'
    BY <1>2, <1>5 DEF Inv, Shared
  <2>9. Shared' /\ Monotone
    BY <1>1, <1>5, <2>1, <2>2, <2>7, <2>8, RowAdded
  <2>10. QED
    BY <1>2, <2>9, NoTask
<1>6. QED
  BY <1>4, <1>5 DEF ApiUpdate

-----------------------------------------------------------------------------
(* The invariant, and what it says.                                         *)

LEMMA InitInv == Init => Inv
<1> SUFFICES ASSUME Init PROVE Inv
  OBVIOUS
<1> USE DEF Init
<1>1. TypeOK
  BY DEF TypeOK, Forms
<1>2. Ids
  BY FS_EmptySet DEF Ids
<1>3. Unique /\ RowsAreFirst
  BY DEF Unique, RowsAreFirst
<1>4. \A t \in Task : TaskInv(t)
  BY DEF TaskInv, Given, Pending, AtFirst, Done
<1>5. QED
  BY <1>1, <1>2, <1>3, <1>4 DEF Inv

LEMMA StepInv == Inv /\ [Next]_vars => Inv'
<1> SUFFICES ASSUME Inv, [Next]_vars PROVE Inv'
  OBVIOUS
<1>1. ASSUME NEW t \in Task, Progress(t) \/ Fault(t) PROVE Inv'
  BY <1>1, Progresses, Fails
<1>2. ASSUME NEW c \in Comment, StoreComment(c) PROVE Inv'
  BY <1>2, StoresComment
<1>3. ASSUME NEW c \in Comment, NEW l \in Reactor, NEW x \in Content, React(c, l, x) PROVE Inv'
  <2>1. Shared' /\ Monotone
    BY <1>3, Reacts DEF Inv, Shared
  <2>2. QED
    BY <1>3, <2>1, NoTask DEF React, tasks
<1>4. ASSUME NEW c \in Comment, NEW e \in reacted[c], Withdraw(c, e) PROVE Inv'
  <2>1. Shared' /\ Monotone
    BY <1>4, Withdraws DEF Inv, Shared
  <2>2. QED
    BY <1>4, <2>1, NoTask DEF Withdraw, tasks
<1>5. ASSUME Api PROVE Inv'
  <2>1. ASSUME NEW k \in Client, NEW x \in Entry, Post(k, x) PROVE Inv'
    BY <2>1, Begins DEF Post, Forms
  <2>2. ASSUME NEW k \in Client, NEW x \in Entry, NEW r \in rows, Patch(k, r, x) PROVE Inv'
    <3>1. r.id \in Nat
      BY DEF Inv, TypeOK
    <3>2. QED
      BY <2>2, <3>1, Begins DEF Patch, Forms
  <2>3. ASSUME NEW r \in rows, Delete(r) PROVE Inv'
    <3>1. Shared' /\ Monotone
      BY <2>3, RowRemoved DEF Inv, Shared
    <3>2. QED
      BY <2>3, <3>1, NoTask DEF Delete, tasks
  <2>4. QED
    BY <1>5, <2>1, <2>2, <2>3, ApiInserts, ApiUpdates DEF Api
<1>6. CASE UNCHANGED vars
  <2>1. /\ UNCHANGED <<reacted, reactions, stored, rows, nextId, pc, todo, seen>>
        /\ UNCHANGED <<form, requests, touched>>
    BY <1>6 DEF vars, github, database, tasks, api
  <2>2. TypeOK'
    BY <2>1 DEF Inv, TypeOK
  <2>3. Shared' /\ Monotone
    BY <2>1, <2>2, RowsLeft DEF Inv
  <2>4. QED
    BY <2>1, <2>3, NoTask
<1>7. QED
  BY <1>1, <1>2, <1>3, <1>4, <1>5, <1>6 DEF Next

\* Whatever people, tasks and the users of the API do, in any order, Inv holds.
THEOREM Invariance == Spec => []Inv
<1>1. QED
  BY InitInv, StepInv, PTL DEF Spec

\* The variables keep their types (models/feedback.py:11-60).
THEOREM TypeCorrect == Spec => []TypeOK
<1>1. Inv => TypeOK
  BY DEF Inv
<1>2. QED
  BY <1>1, Invariance, PTL

\* One row per reactor on a comment, as long as only tasks write the pair and nobody
\* withdraws a vote, for any number of tasks at once and repetitions of them, though
\* get_or_create looks by comment and reactor and the constraint is wider
\* (feedback_worker.py:76-83, models/feedback.py).
THEOREM OneVoteEach == Spec => []OneVotePerReactor
<1>1. Inv => OneVotePerReactor
  <2> SUFFICES ASSUME Inv, NEW f \in rows, NEW g \in rows,
                      Pair(f.entry) = Pair(g.entry), Pair(f.entry) \notin touched
               PROVE  f = g
    BY DEF OneVotePerReactor
  <2>1. /\ f.entry \in Entry /\ g.entry \in Entry
        /\ f.entry.comment = g.entry.comment /\ f.entry.login = g.entry.login
    BY DEF Inv, TypeOK, Pair
  <2>2. PICK d \in reacted[f.entry.comment] :
          First(f.entry.comment, f.entry.login, d) /\ f.entry.reaction = d.content
    BY DEF Inv, RowsAreFirst
  <2>3. PICK e \in reacted[f.entry.comment] :
          First(f.entry.comment, f.entry.login, e) /\ g.entry.reaction = e.content
    BY <2>1 DEF Inv, RowsAreFirst
  <2>4. d = e
    <3>1. f.entry.comment \in Comment
      BY <2>1 DEF Entry
    <3>2. d.id \in Nat /\ e.id \in Nat
      BY <3>1 DEF Inv, TypeOK, Reaction
    <3>3. d.id <= e.id /\ e.id <= d.id
      BY <2>2, <2>3 DEF First
    <3>4. QED
      BY <3>1, <3>2, <3>3 DEF Inv, Ids
  <2>5. f.entry = g.entry
    BY <2>1, <2>2, <2>3, <2>4 DEF Entry
  <2>6. QED
    BY <2>5 DEF Inv, Unique
<1>2. QED
  BY <1>1, Invariance, PTL

\* A task that ends "completed" leaves a row for everybody who was on its list
\* (feedback_worker.py:64-88).
THEOREM CompletedIsTrue == Spec => []CompletedSawAll
<1>1. Inv => CompletedSawAll
  BY DEF Inv, TaskInv, Done, Untouched, CompletedSawAll
<1>2. QED
  BY <1>1, Invariance, PTL
=============================================================================
