\* Two tasks for one comment, a user who votes, changes the vote and adds another
\* emoji, a voter without a login, and one request of the API at any point.
CONSTANTS
  c1 = c1
  u1 = u1
  NoLogin = NoLogin
  t1 = t1
  t2 = t2
  k1 = k1
  Comment = {c1}
  Login = {u1}
  Task = {t1, t2}
  CommentOf <- MCCommentOf
  Client = {k1}
  Page = 2
  MaxReactions = 2
  MaxRequests = 1
SPECIFICATION FairSpec
CHECK_DEADLOCK FALSE
INVARIANTS
  OneVotePerReactor
  CompletedSawAll
PROPERTIES
  EveryTaskEnds
