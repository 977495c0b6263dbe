------------------------- MODULE WebhookIntakeProofs -------------------------
(***************************************************************************)
(* Proofs about WebhookIntake, for any sets of deliveries and processes,   *)
(* any number of requests per delivery and of threads per process.         *)
(***************************************************************************)
EXTENDS WebhookIntake, FiniteSetTheorems, TLAPS

Step(r) ==
  \/ Send(r) \/ Handle(r) \/ RedisRaises(r) \/ EnqueueRaises(r)
  \/ \E p \in Process : Verify(r, p)

LEMMA RequestIsPair ==
  ASSUME NEW r \in Request
  PROVE  r[1] \in Delivery /\ r[2] \in 1 .. Attempts[r[1]] /\ r = <<r[1], r[2]>>
BY DEF Request

LEMMA PairIsRequest ==
  \A d \in Delivery : \A n \in 1 .. Attempts[d] :
    <<d, n>> \in Request /\ <<d, n>>[1] = d /\ <<d, n>>[2] = n
BY DEF Request

LEMMA NextCases ==
  Next => \/ \E r \in Request : Step(r)
          \/ \E d \in Delivery : KeyExpires(d)
          \/ \E p \in Process : ProcessDies(p)
BY DEF Next, Step

LEMMA InitType == Init => TypeOK
BY IntakeAssumption DEF Init, TypeOK, Serving

LEMMA StepType == TypeOK /\ [Next]_vars => TypeOK'
<1> SUFFICES ASSUME TypeOK, [Next]_vars PROVE TypeOK'
  OBVIOUS
<1> USE IntakeAssumption DEF TypeOK, Serving, Goto, Answer, settings
<1>1. ASSUME NEW r \in Request, Step(r) PROVE TypeOK'
  <2> USE RequestIsPair
  <2>1. CASE Send(r)
    BY <2>1 DEF Send
  <2>2. CASE SetNx(r)
    BY <2>2 DEF SetNx
  <2>3. CASE Expire(r)
    BY <2>3 DEF Expire
  <2>4. CASE LookUp(r)
    BY <2>4 DEF LookUp
  <2>5. CASE Add(r)
    <3>1. known' \in [Process -> SUBSET Delivery]
      BY <2>5 DEF Add
    <3>2. QED
      BY <2>5, <3>1 DEF Add
  <2>6. CASE Route(r)
    BY <2>6 DEF Route, Enqueued
  <2>7. CASE RedisRaises(r)
    BY <2>7 DEF RedisRaises
  <2>8. CASE EnqueueRaises(r)
    <3>1. queued' = queued \/ queued' = Enqueued(r[1])
      BY <2>8 DEF EnqueueRaises
    <3>2. queued' \in [Delivery -> Nat]
      BY <3>1 DEF Enqueued
    <3>3. QED
      BY <2>8, <3>2 DEF EnqueueRaises
  <2>9. ASSUME NEW p \in Process, Verify(r, p) PROVE TypeOK'
    BY <2>9 DEF Verify, AfterVerify
  <2>10. QED
    BY <1>1, <2>1, <2>2, <2>3, <2>4, <2>5, <2>6, <2>7, <2>8, <2>9 DEF Step, Handle
<1>2. ASSUME NEW d \in Delivery, KeyExpires(d) PROVE TypeOK'
  BY <1>2 DEF KeyExpires
<1>3. ASSUME NEW p \in Process, ProcessDies(p) PROVE TypeOK'
  BY <1>3 DEF ProcessDies
<1>4. CASE UNCHANGED vars
  BY <1>4 DEF vars
<1>5. QED
  BY <1>1, <1>2, <1>3, <1>4, NextCases

\* The endpoint's state keeps its types.
THEOREM TypeCorrect == Spec => []TypeOK
<1>1. Init => TypeOK
  BY InitType
<1>2. TypeOK /\ [Next]_vars => TypeOK'
  BY StepType
<1>3. QED
  BY <1>1, <1>2, PTL DEF Spec

-----------------------------------------------------------------------------
(* A delivery that is known has a request that claimed it.                  *)

ServedInv == \A r \in Request : pc[r] \in Serving => proc[r] \in Process

LEMMA StepServed == TypeOK /\ ServedInv /\ [Next]_vars => ServedInv'
<1> SUFFICES ASSUME TypeOK, ServedInv, [Next]_vars PROVE ServedInv'
  OBVIOUS
<1> USE DEF TypeOK, ServedInv, Serving, Goto, Answer
<1>1. ASSUME NEW r \in Request, Step(r) PROVE ServedInv'
  <2>1. CASE Send(r)
    BY <2>1 DEF Send
  <2>2. CASE SetNx(r)
    BY <2>2 DEF SetNx
  <2>3. CASE Expire(r)
    BY <2>3 DEF Expire
  <2>4. CASE LookUp(r)
    BY <2>4 DEF LookUp
  <2>5. CASE Add(r)
    BY <2>5 DEF Add
  <2>6. CASE Route(r)
    BY <2>6 DEF Route
  <2>7. CASE RedisRaises(r) \/ EnqueueRaises(r)
    BY <2>7 DEF RedisRaises, EnqueueRaises
  <2>8. ASSUME NEW p \in Process, Verify(r, p) PROVE ServedInv'
    BY <2>8 DEF Verify, AfterVerify
  <2>9. QED
    BY <1>1, <2>1, <2>2, <2>3, <2>4, <2>5, <2>6, <2>7, <2>8 DEF Step, Handle
<1>2. ASSUME NEW p \in Process, ProcessDies(p) PROVE ServedInv'
  BY <1>2 DEF ProcessDies
<1>3. ASSUME NEW d \in Delivery, KeyExpires(d) PROVE ServedInv'
  BY <1>3 DEF KeyExpires
<1>4. CASE UNCHANGED vars
  BY <1>4 DEF vars
<1>5. QED
  BY <1>1, <1>2, <1>3, <1>4, NextCases

SomeClaim(d) == \E n \in 1 .. Attempts[d] : Claimed(<<d, n>>)

ClaimInv ==
  /\ \A d \in Delivery : key[d] # "absent" => SomeClaim(d)
  /\ \A p \in Process : \A d \in known[p] : SomeClaim(d)

\* Claims last: a request that claimed its delivery never un-claims it.
LEMMA ClaimsLast ==
  ASSUME TypeOK, [Next]_vars, NEW q \in Request, Claimed(q)
  PROVE  Claimed(q)'
<1> USE DEF TypeOK, Claimed, Goto, Answer
<1>1. ASSUME NEW r \in Request, Step(r) PROVE Claimed(q)'
  <2>1. CASE Send(r)
    BY <2>1 DEF Send
  <2>2. CASE Handle(r)
    BY <2>2 DEF Handle, SetNx, Expire, LookUp, Add, Route
  <2>3. CASE RedisRaises(r) \/ EnqueueRaises(r)
    BY <2>3 DEF RedisRaises, EnqueueRaises
  <2>4. ASSUME NEW p \in Process, Verify(r, p) PROVE Claimed(q)'
    BY <2>4 DEF Verify
  <2>5. QED
    BY <1>1, <2>1, <2>2, <2>3, <2>4 DEF Step
<1>2. ASSUME NEW d \in Delivery, KeyExpires(d) PROVE Claimed(q)'
  BY <1>2 DEF KeyExpires
<1>3. ASSUME NEW p \in Process, ProcessDies(p) PROVE Claimed(q)'
  BY <1>3 DEF ProcessDies
<1>4. CASE UNCHANGED vars
  BY <1>4 DEF vars
<1>5. QED
  BY <1>1, <1>2, <1>3, <1>4, NextCases

LEMMA SomeClaimLasts ==
  ASSUME TypeOK, [Next]_vars, NEW d \in Delivery, SomeClaim(d)
  PROVE  SomeClaim(d)'
<1>1. PICK n \in 1 .. Attempts[d] : Claimed(<<d, n>>)
  BY DEF SomeClaim
<1>2. Claimed(<<d, n>>)'
  BY <1>1, ClaimsLast DEF Request
<1>3. QED
  BY <1>2 DEF SomeClaim

LEMMA ClaimsHere ==
  ASSUME NEW r \in Request, Claimed(r)' PROVE SomeClaim(r[1])'
BY RequestIsPair DEF SomeClaim

LEMMA StepClaims == TypeOK /\ ClaimInv /\ [Next]_vars => ClaimInv'
<1> SUFFICES ASSUME TypeOK, ClaimInv, [Next]_vars PROVE ClaimInv'
  OBVIOUS
<1> USE IntakeAssumption DEF TypeOK, Goto, Answer
<1>1. SUFFICES
        /\ \A d \in Delivery : key'[d] # "absent" => key[d] # "absent" \/ SomeClaim(d)'
        /\ \A p \in Process : \A d \in known'[p] : d \in known[p] \/ SomeClaim(d)'
  BY <1>1, SomeClaimLasts DEF ClaimInv
<1>2. ASSUME NEW r \in Request, SetNx(r) \/ RedisRaises(r)
      PROVE  /\ known' = known
             /\ \A d \in Delivery : key'[d] # "absent" => key[d] # "absent" \/ SomeClaim(d)'
  <2>1. key' = key \/ Claimed(r)'
    BY <1>2 DEF SetNx, RedisRaises, Claimed
  <2>2. \A d \in Delivery : d # r[1] => key'[d] = key[d]
    BY <1>2 DEF SetNx, RedisRaises
  <2>3. QED
    BY <1>2, <2>1, <2>2, ClaimsHere DEF SetNx, RedisRaises
<1>3. ASSUME NEW r \in Request, Expire(r)
      PROVE  /\ known' = known
             /\ \A d \in Delivery : key'[d] # "absent" => key[d] # "absent" \/ SomeClaim(d)'
  <2>1. Claimed(r)'
    BY <1>3 DEF Expire, Claimed
  <2>2. QED
    BY <1>3, <2>1, ClaimsHere DEF Expire
<1>4. ASSUME NEW r \in Request, Add(r)
      PROVE  /\ key' = key
             /\ \A p \in Process : \A d \in known'[p] : d \in known[p] \/ SomeClaim(d)'
  <2>1. Claimed(r)'
    BY <1>4 DEF Add, Claimed
  <2>2. \A p \in Process : known'[p] \subseteq known[p] \cup {r[1]}
    BY <1>4 DEF Add
  <2>3. QED
    BY <1>4, <2>1, <2>2, ClaimsHere DEF Add
<1>5. ASSUME NEW r \in Request,
             Send(r) \/ LookUp(r) \/ Route(r) \/ EnqueueRaises(r)
               \/ \E p \in Process : Verify(r, p)
      PROVE  key' = key /\ known' = known
  BY <1>5 DEF Send, LookUp, Route, EnqueueRaises, Verify
<1>6. ASSUME NEW d \in Delivery, KeyExpires(d)
      PROVE  known' = known /\ \A e \in Delivery : key'[e] # "absent" => key[e] # "absent"
  BY <1>6 DEF KeyExpires
<1>7. ASSUME NEW p \in Process, ProcessDies(p)
      PROVE  key' = key /\ \A o \in Process : known'[o] \subseteq known[o]
  BY <1>7 DEF ProcessDies
<1>8. CASE UNCHANGED vars
  BY <1>8 DEF vars
<1>9. QED
  BY <1>2, <1>3, <1>4, <1>5, <1>6, <1>7, <1>8, NextCases DEF Step, Handle

LEMMA StepDuplicates ==
  TypeOK /\ ServedInv /\ ClaimInv /\ DuplicateHasOriginal /\ [Next]_vars
    => DuplicateHasOriginal'
<1> SUFFICES ASSUME TypeOK, ServedInv, ClaimInv, DuplicateHasOriginal, [Next]_vars,
                    NEW q \in Request, answer'[q] = "duplicate"
             PROVE  \E n \in 1 .. Attempts[q[1]] : n # q[2] /\ Claimed(<<q[1], n>>)'
  BY DEF DuplicateHasOriginal
<1>1. CASE answer[q] = "duplicate"
  <2>1. PICK n \in 1 .. Attempts[q[1]] : n # q[2] /\ Claimed(<<q[1], n>>)
    BY <1>1 DEF DuplicateHasOriginal
  <2>2. Claimed(<<q[1], n>>)'
    BY <2>1, ClaimsLast, RequestIsPair DEF Request
  <2>3. QED
    BY <2>1, <2>2
<1>2. CASE answer[q] # "duplicate"
  <2>1. (SetNx(q) /\ key[q[1]] # "absent") \/ (LookUp(q) /\ q[1] \in known[proc[q]])
    <3> USE DEF TypeOK, Goto, Answer
    <3>1. ASSUME NEW r \in Request, Step(r)
          PROVE  (SetNx(q) /\ key[q[1]] # "absent") \/ (LookUp(q) /\ q[1] \in known[proc[q]])
      <4>1. CASE Send(r)
        BY <1>2, <4>1 DEF Send
      <4>2. CASE SetNx(r)
        BY <1>2, <4>2 DEF SetNx
      <4>3. CASE LookUp(r)
        BY <1>2, <4>3 DEF LookUp
      <4>4. CASE Route(r)
        BY <1>2, <4>4 DEF Route
      <4>5. CASE RedisRaises(r)
        BY <1>2, <4>5 DEF RedisRaises
      <4>6. CASE EnqueueRaises(r)
        BY <1>2, <4>6 DEF EnqueueRaises
      <4>7. ASSUME NEW p \in Process, Verify(r, p) PROVE FALSE
        BY <1>2, <4>7 DEF Verify
      <4>8. CASE Expire(r)
        BY <1>2, <4>8 DEF Expire
      <4>9. CASE Add(r)
        BY <1>2, <4>9 DEF Add
      <4>10. QED
        BY <3>1, <4>1, <4>2, <4>3, <4>4, <4>5, <4>6, <4>7, <4>8, <4>9 DEF Step, Handle
    <3>2. QED
      BY <1>2, <3>1, NextCases DEF KeyExpires, ProcessDies, vars
  <2>2. SomeClaim(q[1])
    <3>1. CASE SetNx(q) /\ key[q[1]] # "absent"
      BY <3>1, RequestIsPair DEF ClaimInv
    <3>2. CASE LookUp(q) /\ q[1] \in known[proc[q]]
      BY <3>2, RequestIsPair DEF ClaimInv, LookUp, ServedInv, Serving
    <3>3. QED
      BY <2>1, <3>1, <3>2
  <2>3. PICK n \in 1 .. Attempts[q[1]] : Claimed(<<q[1], n>>)
    BY <2>2 DEF SomeClaim
  <2>4. n # q[2]
    BY <2>1, <2>3, RequestIsPair DEF Claimed, SetNx, LookUp, Goto, Answer
  <2>5. Claimed(<<q[1], n>>)'
    BY <2>3, ClaimsLast, RequestIsPair DEF Request
  <2>6. QED
    BY <2>4, <2>5
<1>3. QED
  BY <1>1, <1>2

LEMMA InitClaims == Init => ServedInv /\ ClaimInv /\ DuplicateHasOriginal
BY DEF Init, ServedInv, Serving, ClaimInv, DuplicateHasOriginal

\* A request is turned away as a duplicate only when another one for the delivery has
\* claimed it, in the Redis mode as well as in the in-memory one.
THEOREM DuplicatesHaveOriginals == Spec => []DuplicateHasOriginal
<1>1. Init => ServedInv /\ ClaimInv /\ DuplicateHasOriginal
  BY InitClaims
<1>5. TypeOK /\ ServedInv /\ [Next]_vars => ServedInv'
  BY StepServed
<1>2. TypeOK /\ ClaimInv /\ [Next]_vars => ClaimInv'
  BY StepClaims
<1>3. TypeOK /\ ServedInv /\ ClaimInv /\ DuplicateHasOriginal /\ [Next]_vars
        => DuplicateHasOriginal'
  BY StepDuplicates
<1>4. QED
  BY <1>1, <1>2, <1>3, <1>5, TypeCorrect, PTL DEF Spec
-----------------------------------------------------------------------------
(* One task per lifetime of the key.                                        *)

\* Requests that hold the delivery's claim and may still enqueue its task.
Claiming(d) == {n \in 1 .. Attempts[d] : pc[<<d, n>>] \in {"expire", "route"}}

\* Tasks and claims are paid for by the key that is set now and by those that expired.
Credit(d) == windows[d] + (IF key[d] = "absent" THEN 0 ELSE 1)
WindowInv ==
  /\ \A r \in Request : pc[r] # "add"
  /\ \A d \in Delivery \ anonymous : queued[d] + Cardinality(Claiming(d)) <= Credit(d)

LEMMA ClaimingFinite ==
  ASSUME NEW d \in Delivery
  PROVE  IsFiniteSet(Claiming(d)) /\ Cardinality(Claiming(d)) \in Nat
<1>1. IsFiniteSet(1 .. Attempts[d])
  BY IntakeAssumption, FS_Interval
<1>2. QED
  BY <1>1, FS_Subset, FS_CardinalityType DEF Claiming

LEMMA GotoMoves ==
  ASSUME TypeOK, NEW r \in Request, NEW from, NEW to, Goto(r, from, to)
  PROVE  /\ r[1] \in Delivery /\ r[2] \in 1 .. Attempts[r[1]]
         /\ pc[<<r[1], r[2]>>] = from
         /\ \A d \in Delivery : \A n \in 1 .. Attempts[d] :
              pc'[<<d, n>>] = IF d = r[1] /\ n = r[2] THEN to ELSE pc[<<d, n>>]
<1>1. r[1] \in Delivery /\ r[2] \in 1 .. Attempts[r[1]] /\ r = <<r[1], r[2]>>
  BY RequestIsPair
<1>2. ASSUME NEW d \in Delivery, NEW n \in 1 .. Attempts[d]
      PROVE  pc'[<<d, n>>] = IF d = r[1] /\ n = r[2] THEN to ELSE pc[<<d, n>>]
  <2>1. <<d, n>> \in Request /\ (<<d, n>> = r <=> d = r[1] /\ n = r[2])
    BY <1>1, PairIsRequest
  <2>2. QED
    BY <2>1 DEF TypeOK, Goto
<1>3. QED
  BY <1>1, <1>2 DEF Goto

LEMMA AnswersClaimNothing ==
  ASSUME TypeOK, NEW r \in Request, NEW from \in {"dedup", "expire"},
         Goto(r, from, "answered")
  PROVE  \A d \in Delivery : Claiming(d)' \subseteq Claiming(d)
<1>1. /\ pc[<<r[1], r[2]>>] = from
      /\ \A d \in Delivery : \A n \in 1 .. Attempts[d] :
           pc'[<<d, n>>] = IF d = r[1] /\ n = r[2] THEN "answered" ELSE pc[<<d, n>>]
  BY GotoMoves
<1>2. ASSUME NEW d \in Delivery, NEW n \in Claiming(d)' PROVE n \in Claiming(d)
  <2>1. n \in 1 .. Attempts[d] /\ pc'[<<d, n>>] \in {"expire", "route"}
    BY <1>2 DEF Claiming
  <2>2. pc'[<<d, n>>] = pc[<<d, n>>]
    BY <1>1, <2>1
  <2>3. QED
    BY <2>1, <2>2 DEF Claiming
<1>3. QED
  BY <1>2

LEMMA OneMore ==
  ASSUME TypeOK, NEW r \in Request, Goto(r, "dedup", "expire")
  PROVE  /\ Cardinality(Claiming(r[1])') = Cardinality(Claiming(r[1])) + 1
         /\ \A d \in Delivery : d # r[1] => Claiming(d)' = Claiming(d)
<1>1. /\ r[1] \in Delivery /\ r[2] \in 1 .. Attempts[r[1]]
      /\ pc[<<r[1], r[2]>>] = "dedup"
      /\ \A d \in Delivery : \A n \in 1 .. Attempts[d] :
           pc'[<<d, n>>] = IF d = r[1] /\ n = r[2] THEN "expire" ELSE pc[<<d, n>>]
  BY GotoMoves
<1>2. r[2] \notin Claiming(r[1]) /\ Claiming(r[1])' = Claiming(r[1]) \cup {r[2]}
  BY <1>1 DEF Claiming
<1>3. \A d \in Delivery : d # r[1] => Claiming(d)' = Claiming(d)
  BY <1>1 DEF Claiming
<1>4. QED
  BY <1>1, <1>2, <1>3, ClaimingFinite, FS_AddElement

LEMMA OneLess ==
  ASSUME TypeOK, NEW r \in Request, NEW from \in {"expire", "route"},
         Goto(r, from, "answered")
  PROVE  /\ Cardinality(Claiming(r[1])') = Cardinality(Claiming(r[1])) - 1
         /\ \A d \in Delivery : d # r[1] => Claiming(d)' = Claiming(d)
<1>1. /\ r[1] \in Delivery /\ r[2] \in 1 .. Attempts[r[1]]
      /\ pc[<<r[1], r[2]>>] = from
      /\ \A d \in Delivery : \A n \in 1 .. Attempts[d] :
           pc'[<<d, n>>] = IF d = r[1] /\ n = r[2] THEN "answered" ELSE pc[<<d, n>>]
  BY GotoMoves
<1>2. r[2] \in Claiming(r[1]) /\ Claiming(r[1])' = Claiming(r[1]) \ {r[2]}
  <2>1. r[2] \in Claiming(r[1])
    BY <1>1 DEF Claiming
  <2>2. \A n \in 1 .. Attempts[r[1]] :
          n \in Claiming(r[1])' <=> n \in Claiming(r[1]) /\ n # r[2]
    BY <1>1 DEF Claiming
  <2>3. Claiming(r[1]) \subseteq 1 .. Attempts[r[1]]
        /\ Claiming(r[1])' \subseteq 1 .. Attempts[r[1]]
    BY DEF Claiming
  <2>4. Claiming(r[1])' = Claiming(r[1]) \ {r[2]}
    BY <2>2, <2>3
  <2>5. QED
    BY <2>1, <2>4
<1>3. ASSUME NEW d \in Delivery, d # r[1] PROVE Claiming(d)' = Claiming(d)
  <2>1. \A n \in 1 .. Attempts[d] : pc'[<<d, n>>] = pc[<<d, n>>]
    BY <1>1, <1>3
  <2>2. QED
    BY <2>1 DEF Claiming
<1>4. IsFiniteSet(Claiming(r[1])) /\ Cardinality(Claiming(r[1])) \in Nat
  BY <1>1, ClaimingFinite
<1>5. Cardinality(Claiming(r[1]) \ {r[2]}) = Cardinality(Claiming(r[1])) - 1
  BY <1>2, <1>4, FS_RemoveElement
<1>6. QED
  BY <1>2, <1>3, <1>5

LEMMA NoMore ==
  ASSUME NEW d \in Delivery, Claiming(d)' \subseteq Claiming(d)
  PROVE  Cardinality(Claiming(d)') <= Cardinality(Claiming(d))
<1>1. IsFiniteSet(Claiming(d))
  BY ClaimingFinite
<1>2. QED
  BY <1>1, FS_Subset

LEMMA CardinalityLater == \A d \in Delivery : Cardinality(Claiming(d)') \in Nat
<1>1. \A d \in Delivery : IsFiniteSet(1 .. Attempts[d])
  BY IntakeAssumption, FS_Interval
<1>2. QED
  BY <1>1, FS_Subset, FS_CardinalityType DEF Claiming

LEMMA SettingsStay == [Next]_vars => redis' = redis /\ anonymous' = anonymous
<1> SUFFICES ASSUME [Next]_vars PROVE redis' = redis /\ anonymous' = anonymous
  OBVIOUS
<1> USE DEF Goto, Answer, settings
<1>1. ASSUME NEW r \in Request, Step(r) PROVE redis' = redis /\ anonymous' = anonymous
  <2>1. CASE Handle(r)
    BY <2>1 DEF Handle, SetNx, Expire, LookUp, Add, Route
  <2>2. QED
    BY <1>1, <2>1 DEF Step, Send, RedisRaises, EnqueueRaises, Verify
<1>2. QED
  BY <1>1, NextCases DEF KeyExpires, ProcessDies, vars

LEMMA StepWindow ==
  TypeOK /\ redis /\ WindowInv /\ [Next]_vars => WindowInv'
<1> SUFFICES ASSUME TypeOK, redis, WindowInv, [Next]_vars PROVE WindowInv'
  OBVIOUS
<1>t. TypeOK' /\ anonymous' = anonymous
  BY StepType, SettingsStay
<1> USE ClaimingFinite, CardinalityLater, <1>t DEF TypeOK, WindowInv, Credit
<1>1. ASSUME NEW r \in Request, SetNx(r) PROVE WindowInv'
  <2> USE DEF Goto, Answer
  <2>1. CASE key[r[1]] = "absent"
    <3>1. Cardinality(Claiming(r[1])') = Cardinality(Claiming(r[1])) + 1
          /\ \A d \in Delivery : d # r[1] => Claiming(d)' = Claiming(d)
      BY <1>1, <2>1, OneMore DEF SetNx
    <3>2. QED
      BY <1>1, <2>1, <3>1, <1>t, RequestIsPair DEF SetNx
  <2>2. CASE key[r[1]] # "absent"
    <3>1. \A d \in Delivery : Claiming(d)' = Claiming(d)
      BY <1>1, <2>2 DEF SetNx, Claiming, Request
    <3>2. QED
      BY <1>1, <2>2, <3>1 DEF SetNx
  <2>3. QED
    BY <2>1, <2>2
<1>2. ASSUME NEW r \in Request, Send(r) \/ Expire(r) \/ \E p \in Process : Verify(r, p)
      PROVE  WindowInv'
  <2>1. \A d \in Delivery \ anonymous : Claiming(d)' = Claiming(d)
    <3>1. PICK from \in {"unsent", "sent", "expire"},
               to \in {"sent", "dedup", "answered", "route"} :
            /\ Goto(r, from, to)
            /\ r[1] \notin anonymous => (from = "expire" <=> to = "route")
      BY <1>2 DEF Send, Expire, Verify, AfterVerify, Answer
    <3>2. /\ pc[<<r[1], r[2]>>] = from
          /\ \A d \in Delivery : \A n \in 1 .. Attempts[d] :
               pc'[<<d, n>>] = IF d = r[1] /\ n = r[2] THEN to ELSE pc[<<d, n>>]
      BY <3>1, GotoMoves
    <3>3. ASSUME NEW d \in Delivery \ anonymous, NEW n \in 1 .. Attempts[d]
          PROVE  pc'[<<d, n>>] \in {"expire", "route"} <=> pc[<<d, n>>] \in {"expire", "route"}
      <4>1. CASE d = r[1] /\ n = r[2]
        BY <3>1, <3>2, <4>1
      <4>2. CASE ~(d = r[1] /\ n = r[2])
        BY <3>2, <4>2
      <4>3. QED
        BY <4>1, <4>2
    <3>4. QED
      BY <3>3 DEF Claiming
  <2>2. \A q \in Request : pc'[q] # "add"
    BY <1>2 DEF Send, Expire, Verify, AfterVerify, Goto, Answer
  <2>3. \A d \in Delivery : Credit(d)' >= Credit(d) /\ queued'[d] = queued[d]
    BY <1>2, RequestIsPair DEF Send, Expire, Verify
  <2>4. QED
    BY <1>t, <2>1, <2>2, <2>3
<1>3. ASSUME NEW r \in Request, LookUp(r) \/ Add(r) PROVE FALSE
  BY <1>3 DEF LookUp, Add, Goto
<1>4. ASSUME NEW r \in Request, Route(r) \/ EnqueueRaises(r) PROVE WindowInv'
  <2>1. Goto(r, "route", "answered") /\ UNCHANGED <<key, windows>>
    BY <1>4 DEF Route, EnqueueRaises, Answer
  <2>2. Cardinality(Claiming(r[1])') = Cardinality(Claiming(r[1])) - 1
        /\ \A d \in Delivery : d # r[1] => Claiming(d)' = Claiming(d)
    BY <2>1, OneLess
  <2>3. queued' = queued \/ queued' = Enqueued(r[1])
    BY <1>4 DEF Route, EnqueueRaises
  <2>4. \A d \in Delivery : queued'[d] = queued[d] \/ (d = r[1] /\ queued'[d] = queued[d] + 1)
    BY <2>3, RequestIsPair DEF Enqueued
  <2>5. \A q \in Request : pc'[q] # "add"
    BY <2>1 DEF Goto
  <2>6. \A d \in Delivery : Credit(d)' = Credit(d)
    BY <2>1
  <2>7. QED
    BY <1>t, <2>2, <2>4, <2>5, <2>6
<1>5. ASSUME NEW r \in Request, RedisRaises(r) PROVE WindowInv'
  <2>1. \A q \in Request : pc'[q] # "add"
    BY <1>5 DEF RedisRaises, Goto, Answer
  <2>2. \A d \in Delivery : Claiming(d)' \subseteq Claiming(d)
    BY <1>5, AnswersClaimNothing DEF RedisRaises, Answer
  <2>3. \A d \in Delivery : Cardinality(Claiming(d)') <= Cardinality(Claiming(d))
    BY <2>2, NoMore
  <2>4. \A d \in Delivery : Credit(d)' >= Credit(d) /\ queued'[d] = queued[d]
    BY <1>5, RequestIsPair DEF RedisRaises
  <2>5. QED
    BY <1>t, <2>1, <2>3, <2>4
<1>6. ASSUME NEW d \in Delivery, KeyExpires(d) PROVE WindowInv'
  <2>1. \A e \in Delivery : Claiming(e)' = Claiming(e)
    BY <1>6 DEF KeyExpires, Claiming
  <2>2. QED
    BY <1>6, <2>1 DEF KeyExpires
<1>7. ASSUME NEW p \in Process, ProcessDies(p) PROVE WindowInv'
  <2>1. \A q \in Request : pc'[q] # "add"
    BY <1>7 DEF ProcessDies
  <2>2. \A d \in Delivery : Claiming(d)' \subseteq Claiming(d)
    BY <1>7, PairIsRequest DEF ProcessDies, Claiming
  <2>3. \A d \in Delivery : Cardinality(Claiming(d)') <= Cardinality(Claiming(d))
    BY <2>2, NoMore
  <2>4. \A d \in Delivery : Credit(d)' = Credit(d) /\ queued'[d] = queued[d]
    BY <1>7 DEF ProcessDies
  <2>5. QED
    BY <1>t, <2>1, <2>3, <2>4
<1>8. CASE UNCHANGED vars
  BY <1>8 DEF vars, Claiming
<1>9. QED
  BY <1>1, <1>2, <1>3, <1>4, <1>5, <1>6, <1>7, <1>8, NextCases DEF Step, Handle

LEMMA InitWindow == Init => WindowInv
<1> SUFFICES ASSUME Init PROVE WindowInv
  OBVIOUS
<1>1. \A d \in Delivery : Claiming(d) = {}
  BY DEF Init, Claiming, Request
<1>2. QED
  BY <1>1, FS_EmptySet DEF Init, WindowInv, Credit

RedisWindowInv == redis => WindowInv

\* With Redis, however many processes and threads serve however many requests, a
\* delivery is enqueued at most once per lifetime of its key.
THEOREM OneTaskPerKey == Spec => []OneTaskPerWindow
<1>1. Init => RedisWindowInv
  BY InitWindow DEF RedisWindowInv
<1>2. TypeOK /\ RedisWindowInv /\ [Next]_vars => RedisWindowInv'
  BY StepWindow, SettingsStay DEF RedisWindowInv
<1>3. TypeOK /\ RedisWindowInv => OneTaskPerWindow
  BY ClaimingFinite DEF TypeOK, RedisWindowInv, WindowInv, Credit, OneTaskPerWindow
<1>4. QED
  BY <1>1, <1>2, <1>3, TypeCorrect, PTL DEF Spec

-----------------------------------------------------------------------------
(* What a key without a lifetime, and an answer 202, have behind them.      *)

\* A request on its way to expire(), or one that failed on it.
Blamed(q) == pc[q] \in {"expire", "dead"} \/ answer[q] = "error"
ErrorIsFinal == \A q \in Request : answer[q] = "error" => pc[q] = "answered"
CauseInv ==
  \A d \in Delivery : key[d] = "forever" => \E n \in 1 .. Attempts[d] : Blamed(<<d, n>>)
EternalInv == ErrorIsFinal /\ CauseInv

LEMMA StepErrors == TypeOK /\ ErrorIsFinal /\ [Next]_vars => ErrorIsFinal'
<1> SUFFICES ASSUME TypeOK, ErrorIsFinal, [Next]_vars PROVE ErrorIsFinal'
  OBVIOUS
<1> USE DEF TypeOK, ErrorIsFinal, Goto, Answer
<1>1. ASSUME NEW r \in Request, Step(r) PROVE ErrorIsFinal'
  <2>1. CASE Send(r)
    BY <2>1 DEF Send
  <2>2. CASE Handle(r)
    BY <2>2 DEF Handle, SetNx, Expire, LookUp, Add, Route
  <2>3. CASE RedisRaises(r) \/ EnqueueRaises(r)
    BY <2>3 DEF RedisRaises, EnqueueRaises
  <2>4. ASSUME NEW p \in Process, Verify(r, p) PROVE ErrorIsFinal'
    BY <2>4 DEF Verify
  <2>5. QED
    BY <1>1, <2>1, <2>2, <2>3, <2>4 DEF Step
<1>2. QED
  BY <1>1, NextCases DEF KeyExpires, ProcessDies, Serving, vars

\* The blame passes from no request but by expire(), which gives the key a lifetime.
LEMMA BlameLasts ==
  ASSUME TypeOK, ErrorIsFinal, [Next]_vars, NEW q \in Request, Blamed(q)
  PROVE  Blamed(q)' \/ key'[q[1]] = "expiring"
<1> DEFINE G == Blamed(q)' \/ key'[q[1]] = "expiring"
<1> USE DEF TypeOK, ErrorIsFinal, Blamed, Goto, Answer
<1>1. ASSUME NEW r \in Request, Step(r) PROVE G
  <2> USE RequestIsPair
  <2>1. CASE Expire(r)
    BY <2>1 DEF Expire
  <2>2. CASE SetNx(r) \/ LookUp(r) \/ Add(r) \/ Route(r)
    BY <2>2 DEF SetNx, LookUp, Add, Route
  <2>3. CASE RedisRaises(r) \/ EnqueueRaises(r)
    BY <2>3 DEF RedisRaises, EnqueueRaises
  <2>4. CASE Send(r)
    BY <2>4 DEF Send
  <2>5. ASSUME NEW p \in Process, Verify(r, p) PROVE G
    BY <2>5 DEF Verify
  <2>6. QED
    BY <1>1, <2>1, <2>2, <2>3, <2>4, <2>5 DEF Step, Handle
<1>2. QED
  BY <1>1, NextCases DEF KeyExpires, ProcessDies, Serving, vars

\* Only a claim that is to be given its lifetime, or that failed, makes such a key.
LEMMA EternalIsNew ==
  ASSUME TypeOK, [Next]_vars, NEW d \in Delivery, key'[d] = "forever", key[d] # "forever"
  PROVE  \E n \in 1 .. Attempts[d] : Blamed(<<d, n>>)'
<1> USE DEF TypeOK, Goto, Answer
<1>1. ASSUME NEW r \in Request, Step(r) PROVE r[1] = d /\ Blamed(r)'
  <2> USE RequestIsPair DEF Blamed
  <2>1. CASE SetNx(r)
    BY <2>1 DEF SetNx
  <2>2. CASE Expire(r) \/ LookUp(r) \/ Add(r) \/ Route(r)
    BY <2>2 DEF Expire, LookUp, Add, Route
  <2>3. CASE RedisRaises(r)
    BY <2>3 DEF RedisRaises
  <2>4. CASE Send(r) \/ EnqueueRaises(r)
    BY <2>4 DEF Send, EnqueueRaises
  <2>5. ASSUME NEW p \in Process, Verify(r, p) PROVE FALSE
    BY <2>5 DEF Verify
  <2>6. QED
    BY <1>1, <2>1, <2>2, <2>3, <2>4, <2>5 DEF Step, Handle
<1>2. ~(\E e \in Delivery : KeyExpires(e)) /\ ~(\E p \in Process : ProcessDies(p)) /\ ~UNCHANGED vars
  BY DEF KeyExpires, ProcessDies, vars
<1>3. PICK r \in Request : Step(r)
  BY <1>2, NextCases
<1>4. QED
  BY <1>1, <1>3, RequestIsPair

LEMMA StepEternal == TypeOK /\ EternalInv /\ [Next]_vars => EternalInv'
<1> SUFFICES ASSUME TypeOK, EternalInv, [Next]_vars PROVE EternalInv'
  OBVIOUS
<1>1. ErrorIsFinal'
  BY StepErrors DEF EternalInv
<1>2. ASSUME NEW d \in Delivery, key'[d] = "forever"
      PROVE  \E n \in 1 .. Attempts[d] : Blamed(<<d, n>>)'
  <2>1. CASE key[d] = "forever"
    <3>1. PICK n \in 1 .. Attempts[d] : Blamed(<<d, n>>)
      BY <2>1 DEF EternalInv, CauseInv
    <3>2. <<d, n>> \in Request /\ <<d, n>>[1] = d
      BY PairIsRequest
    <3>3. Blamed(<<d, n>>)'
      BY <1>2, <3>1, <3>2, BlameLasts DEF EternalInv
    <3>4. QED
      BY <3>3
  <2>2. QED
    BY <1>2, <2>1, EternalIsNew
<1>3. QED
  BY <1>1, <1>2 DEF EternalInv, CauseInv, Blamed

\* A key without a lifetime has a request behind it that is about to give it one, or that
\* failed or died on the way, whatever the requests and failures.
THEOREM EternalKeysHaveCauses == Spec => []EternalKeyHasCause
<1>1. Init => EternalInv
  BY DEF Init, EternalInv, ErrorIsFinal, CauseInv
<1>2. EternalInv => EternalKeyHasCause
  BY DEF EternalInv, CauseInv, Blamed, EternalKeyHasCause
<1>3. QED
  BY <1>1, <1>2, StepEternal, TypeCorrect, PTL DEF Spec

LEMMA AcceptedFinite ==
  \A d \in Delivery : /\ IsFiniteSet(AcceptedAt(d)) /\ Cardinality(AcceptedAt(d)) \in Nat
                      /\ Cardinality(AcceptedAt(d)') \in Nat
<1>1. \A d \in Delivery : IsFiniteSet(1 .. Attempts[d])
  BY IntakeAssumption, FS_Interval
<1>2. QED
  BY <1>1, FS_Subset, FS_CardinalityType DEF AcceptedAt

LEMMA AnswerMoves ==
  ASSUME TypeOK, NEW r \in Request, NEW a, answer' = [answer EXCEPT ![r] = a], NEW d \in Delivery
  PROVE  AcceptedAt(d)' = IF d = r[1]
                          THEN IF a = "accepted" THEN AcceptedAt(d) \cup {r[2]} ELSE AcceptedAt(d) \ {r[2]}
                          ELSE AcceptedAt(d)
<1>1. r[1] \in Delivery /\ r[2] \in 1 .. Attempts[r[1]] /\ r = <<r[1], r[2]>>
  BY RequestIsPair
<1>2. ASSUME NEW n \in 1 .. Attempts[d]
      PROVE  answer'[<<d, n>>] = IF d = r[1] /\ n = r[2] THEN a ELSE answer[<<d, n>>]
  <2>1. <<d, n>> \in Request /\ (<<d, n>> = r <=> d = r[1] /\ n = r[2])
    BY <1>1, PairIsRequest
  <2>2. QED
    BY <2>1 DEF TypeOK
<1>3. QED
  BY <1>1, <1>2 DEF AcceptedAt

LEMMA OneElementMore ==
  ASSUME NEW S, IsFiniteSet(S), NEW x
  PROVE  Cardinality(S \cup {x}) <= Cardinality(S) + 1
<1>1. Cardinality(S \cup {x}) \in {Cardinality(S), Cardinality(S) + 1}
  BY FS_AddElement
<1>2. Cardinality(S) \in Nat
  BY FS_CardinalityType
<1>3. QED
  BY <1>1, <1>2

LEMMA FewerAccepted ==
  ASSUME NEW d \in Delivery, AcceptedAt(d)' \subseteq AcceptedAt(d)
  PROVE  Cardinality(AcceptedAt(d)') <= Cardinality(AcceptedAt(d))
BY AcceptedFinite, FS_Subset

LEMMA StepAccepted == TypeOK /\ AcceptedIsQueued /\ [Next]_vars => AcceptedIsQueued'
<1> SUFFICES ASSUME TypeOK, AcceptedIsQueued, [Next]_vars PROVE AcceptedIsQueued'
  OBVIOUS
<1> USE IntakeAssumption, AcceptedFinite
<1>t. TypeOK'
  BY StepType
<1>1. ASSUME NEW r \in Request, NEW a, answer' = [answer EXCEPT ![r] = a], a # "accepted",
             \/ queued' = queued
             \/ r[1] \in TaskDelivery /\ queued' = Enqueued(r[1])
      PROVE  AcceptedIsQueued'
  <2>1. ASSUME NEW d \in Delivery
        PROVE  Cardinality(AcceptedAt(d)') <= Cardinality(AcceptedAt(d))
    <3>1. AcceptedAt(d)' = IF d = r[1] THEN AcceptedAt(d) \ {r[2]} ELSE AcceptedAt(d)
      BY <1>1, AnswerMoves
    <3>2. AcceptedAt(d)' \subseteq AcceptedAt(d)
      BY <3>1
    <3>3. QED
      BY <3>2, FewerAccepted
  <2>2. ASSUME NEW d \in Delivery
        PROVE  queued'[d] >= queued[d] /\ (d \notin TaskDelivery => queued'[d] = queued[d])
    <3>1. CASE queued' = queued
      BY <3>1 DEF TypeOK
    <3>2. CASE r[1] \in TaskDelivery /\ queued' = Enqueued(r[1])
      BY <3>2 DEF TypeOK, Enqueued
    <3>3. QED
      BY <1>1, <3>1, <3>2
  <2>3. QED
    BY <1>t, <2>1, <2>2 DEF TypeOK, AcceptedIsQueued
<1>2. ASSUME NEW r \in Request, r[1] \in TaskDelivery,
             answer' = [answer EXCEPT ![r] = "accepted"], queued' = Enqueued(r[1])
      PROVE  AcceptedIsQueued'
  <2>1. ASSUME NEW d \in Delivery, d # r[1]
        PROVE  AcceptedAt(d)' = AcceptedAt(d) /\ queued'[d] = queued[d]
    <3>1. AcceptedAt(d)' = AcceptedAt(d)
      BY <1>2, <2>1, AnswerMoves
    <3>2. QED
      BY <1>2, <2>1, <3>1 DEF TypeOK, Enqueued
  <2>2. /\ r[1] \in Delivery /\ queued'[r[1]] = queued[r[1]] + 1
        /\ AcceptedAt(r[1])' = AcceptedAt(r[1]) \cup {r[2]}
    <3>1. r[1] \in Delivery
      BY RequestIsPair
    <3>2. queued'[r[1]] = queued[r[1]] + 1
      BY <1>2, <3>1 DEF TypeOK, Enqueued
    <3>3. AcceptedAt(r[1])' = AcceptedAt(r[1]) \cup {r[2]}
      BY <1>2, <3>1, AnswerMoves
    <3>4. QED
      BY <3>1, <3>2, <3>3
  <2>3. Cardinality(AcceptedAt(r[1])') <= Cardinality(AcceptedAt(r[1])) + 1
    <3> DEFINE S == AcceptedAt(r[1])
    <3>1. IsFiniteSet(S) /\ Cardinality(S) \in Nat
      BY <2>2
    <3>2. Cardinality(S \cup {r[2]}) <= Cardinality(S) + 1
      BY <3>1, OneElementMore
    <3>3. QED
      BY <2>2, <3>2
  <2>4. ASSUME NEW d \in Delivery
        PROVE  IF d \in TaskDelivery THEN Cardinality(AcceptedAt(d)') <= queued'[d]
                                     ELSE queued'[d] = 0
    <3>1. CASE d = r[1]
      <4>1. Cardinality(AcceptedAt(r[1])) <= queued[r[1]] /\ queued[r[1]] \in Nat
        BY <1>2, <2>2 DEF TypeOK, AcceptedIsQueued
      <4>2. /\ Cardinality(AcceptedAt(r[1])) \in Nat
            /\ Cardinality(AcceptedAt(r[1])') \in Nat
        BY <2>2
      <4>3. Cardinality(AcceptedAt(r[1])') <= queued'[r[1]]
        BY <2>2, <2>3, <4>1, <4>2
      <4>4. QED
        BY <1>2, <3>1, <4>3
    <3>2. CASE d # r[1]
      BY <2>1, <3>2 DEF AcceptedIsQueued
    <3>3. QED
      BY <3>1, <3>2
  <2>5. QED
    BY <2>4 DEF AcceptedIsQueued
<1>3. ASSUME NEW r \in Request, r[1] \notin TaskDelivery, NEW a,
             answer' = [answer EXCEPT ![r] = a], queued' = queued
      PROVE  AcceptedIsQueued'
  <2>1. ASSUME NEW d \in TaskDelivery PROVE AcceptedAt(d)' = AcceptedAt(d)
    <3>1. d \in Delivery /\ d # r[1]
      BY <1>3
    <3>2. QED
      BY <1>3, <3>1, AnswerMoves
  <2>2. QED
    BY <1>3, <2>1 DEF AcceptedIsQueued
<1>4. CASE UNCHANGED <<answer, queued>>
  BY <1>4 DEF AcceptedIsQueued, AcceptedAt
<1>5. ASSUME NEW r \in Request, Step(r) PROVE AcceptedIsQueued'
  <2>1. CASE Route(r)
    <3>1. CASE r[1] \in TaskDelivery
      BY <1>2, <2>1, <3>1 DEF Route, Answer
    <3>2. CASE r[1] \notin TaskDelivery
      BY <1>3, <2>1, <3>2 DEF Route, Answer
    <3>3. QED
      BY <3>1, <3>2
  <2>2. CASE EnqueueRaises(r)
    <3>1. r[1] \in TaskDelivery /\ answer' = [answer EXCEPT ![r] = "error"]
          /\ (queued' = queued \/ queued' = Enqueued(r[1]))
      BY <2>2 DEF EnqueueRaises, Answer
    <3>2. QED
      BY <1>1, <3>1
  <2>3. CASE Send(r) \/ Expire(r) \/ Add(r)
    BY <1>4, <2>3 DEF Send, Expire, Add
  <2>4. CASE SetNx(r) \/ LookUp(r)
    <3>1. queued' = queued
          /\ (answer' = answer \/ answer' = [answer EXCEPT ![r] = "duplicate"])
      BY <2>4 DEF SetNx, LookUp, Answer
    <3>2. QED
      BY <1>1, <1>4, <3>1
  <2>5. CASE RedisRaises(r)
    <3>1. queued' = queued /\ answer' = [answer EXCEPT ![r] = "error"]
      BY <2>5 DEF RedisRaises, Answer
    <3>2. QED
      BY <1>1, <3>1
  <2>6. ASSUME NEW p \in Process, Verify(r, p) PROVE AcceptedIsQueued'
    <3>1. queued' = queued
          /\ (answer' = answer \/ answer' = [answer EXCEPT ![r] = "unauthorized"])
      BY <2>6 DEF Verify, Answer
    <3>2. QED
      BY <1>1, <1>4, <3>1
  <2>7. QED
    BY <1>5, <2>1, <2>2, <2>3, <2>4, <2>5, <2>6 DEF Step, Handle
<1>6. QED
  BY <1>4, <1>5, NextCases DEF KeyExpires, ProcessDies, vars

\* Every 202 to a delivery with work in it has a task of its own in the queue, and nothing
\* else is ever queued.
THEOREM AcceptedHasTask == Spec => []AcceptedIsQueued
<1>1. Init => AcceptedIsQueued
  <2> SUFFICES ASSUME Init PROVE AcceptedIsQueued
    OBVIOUS
  <2>1. \A d \in Delivery : AcceptedAt(d) = {} /\ queued[d] = 0
    BY PairIsRequest DEF Init, AcceptedAt
  <2>2. QED
    BY <2>1, FS_EmptySet DEF AcceptedIsQueued
<1>2. QED
  BY <1>1, StepAccepted, TypeCorrect, PTL DEF Spec
=============================================================================
